---- MODULE Spec2Model ----
(***************************************************************************)
(* A model of the session-orchestration machinery of bank_scrapers:        *)
(*   - the filesystem OTP poller, search_files_for_int and its two wait    *)
(*     helpers (bank_scrapers/common/functions.py);                        *)
(*   - the retry decorator of the Prometheus exporter                      *)
(*     (bank_scrapers/examples/prometheus_exporter/bank_exporter.py);      *)
(*   - the screenshot_on_timeout decorator                                 *)
(*     (bank_scrapers/scrapers/common/functions.py);                       *)
(*   - the login of a retrieval, for the Chase and the Fidelity            *)
(*     NetBenefits integrations (bank_scrapers/scrapers/.../driver.py);    *)
(*   - convert_to_prometheus (bank_scrapers/common/functions.py);          *)
(*   - the scrape and enable commands of the Prometheus exporter, with the *)
(*     jail file and the tests file;                                       *)
(*   - the Selenium drivers' calls of search_files_for_int;                *)
(*   - the command line interface and the library's logger                 *)
(*     (bank_scrapers/cli/cli.py, bank_scrapers/common/log.py).            *)
(* Each component has its own specification (Spec for one polling flow,    *)
(* MultiSpec for two flows on one directory, RetrySpec for the retry       *)
(* decorator, CaptureSpec for screenshot_on_timeout, LoginSpec for the     *)
(* login, PollSpec and LoopSpec for the poller's waits, MetricSpec for     *)
(* convert_to_prometheus, BatchSpec for the exporter's scrape and enable   *)
(* commands, JailSpec for enable commands given at any time, DriverSpec    *)
(* for the drivers' OTP calls, CliSpec for the command line interface);    *)
(* the variables of the other components stay at their initial values.     *)
(***************************************************************************)
EXTENDS Integers, Sequences, FiniteSets, TLC

VARIABLES
    dirExists,      \* os.path.exists(filepath): the OTP directory exists
    files,          \* the directory: file name -> [ext, text]; DOMAIN files = os.listdir
    relay,          \* which files the external writers add: "solo", "shared", "none"
    flows,          \* the MFA flows of this run (each one caller of search_files_for_int)
    cfg,            \* per flow: the arguments of its search_files_for_int calls
    pc,             \* per flow: position in search_files_for_int
    i1,             \* per flow: i of wait_for_path_to_exist (seconds slept there)
    i2,             \* per flow: i of wait_for_files_in_dir (seconds slept there)
    total_delay,    \* per flow: total_delay of search_files_for_int
    result,         \* per flow: what the current call returned or raised
    round,          \* per flow: "none", "first" or "second" call of the flow
    prev,           \* per flow: the result of the flow's first call
    changed,        \* per flow: the directory changed since the first call began
    retries,        \* retry(): the decorator's retries argument
    this_retries,   \* _retry: this_retries of the current call
    rpc,            \* _retry: position of the current call
    rargs,          \* _retry: *args, **kwargs of the current call
    passed,         \* the arguments func received, one entry per invocation
    raised,         \* the errors func raised, one entry per failed invocation
    sleeps,         \* how often time.sleep(delay) ran in the current call
    outcome,        \* what the current call handed its caller
    calls,          \* calls of the wrapped function made so far
    errorDirExists, \* os.path.dirname(save_path), the directory ERROR_DIR, exists
    writes,         \* the files written below ERROR_DIR, in the order of writing
    wcalls,         \* the calls of decorated steps made so far in this process
    institution,    \* the integration whose get_accounts_info runs
    mfa_auth,       \* whether an MFA automation config was passed ("none", "config")
    page,           \* what the controllable session shows: [url, text]
    lpc,            \* the position of the retrieval in get_accounts_info / run
    seen,           \* the pages the classification predicates were evaluated on
    visited,        \* the session states the retrieval went through, in order
    prompts,        \* how often the user was prompted with input()
    otpCalls,       \* how often search_files_for_int was invoked
    inputs,         \* what the retrieval sent to the session, in order
    loutcome,       \* how the retrieval ended
    session,        \* the browser or driver of the retrieval
    table_list,     \* convert_to_prometheus: the tables it is called with
    mpc,            \* convert_to_prometheus: position of the call
    current_balance_metrics,  \* what convert_to_prometheus returned or raised
    banks,          \* banks["banks"] of the config file: the bank names, in order
    jailFile,       \* the text of JAIL_FILE: bank names and "\n", in order
    tests_dict,     \* the tests file: bank name -> "none", "passed", "failed"
    bankErrors,     \* the artifacts below ERROR_DIR when the exporter lists it
    bpc,            \* the exporter: "off", "idle" between commands, "loop" in a run
    jail,           \* get_bank_metrics: the lines read from JAIL_FILE
    bi,             \* get_bank_metrics: index of the bank the loop is at
    attempts,       \* the retrievals of the current run: [bank, outcome]
    fetched,        \* the banks get_credentials was called for in the current run
    bexit,          \* the error the exporter's process ended with, if any
    runs,           \* the scrape commands started so far
    args,           \* the CLI: the parsed argparse.Namespace
    log_level,      \* the level of the library's logger
    stdout,         \* what the logger's handler and print wrote to sys.stdout
    disk,           \* the files a retrieval of the CLI wrote
    cpc             \* the CLI: position of main and of the retrieval it runs

otpVars == <<dirExists, files, relay, flows, cfg, pc, i1, i2, total_delay, result,
             round, prev, changed>>
retryVars == <<retries, this_retries, rpc, rargs, passed, raised, sleeps,
               outcome, calls>>
captureVars == <<errorDirExists, writes, wcalls>>
loginVars == <<institution, mfa_auth, page, lpc, seen, visited, prompts, otpCalls,
               inputs, loutcome, session>>
metricVars == <<table_list, mpc, current_balance_metrics>>
batchVars == <<banks, jailFile, tests_dict, bankErrors, bpc, jail, bi, attempts, fetched,
               bexit, runs>>
cliVars == <<args, log_level, stdout, disk, cpc>>
vars == <<otpVars, retryVars, captureVars, loginVars, metricVars, batchVars,
          cliVars>>

(***************************************************************************)
(* Text: a file's content is a sequence of one-character strings.          *)
(***************************************************************************)
Digits == {"0", "1", "2", "3", "4", "5", "6", "7", "8", "9"}

\* the regular expression class \d
IsDigit(c) == c \in Digits

\* the regular expression class \s
IsSpace(c) == c \in {" ", "\t", "\n"}

\* text.read().replace("\n", "")
StripNewlines(s) == SelectSeq(s, LAMBDA c : c # "\n")

\* the literal match_string starts at position p of s
TagAt(s, tag, p) ==
    /\ p + Len(tag) - 1 <= Len(s)
    /\ SubSeq(s, p, p + Len(tag) - 1) = tag

\* the group (\s+|:\s) matches at position p of s
SepAt(s, p) ==
    \/ p <= Len(s) /\ IsSpace(s[p])
    \/ p + 1 <= Len(s) /\ s[p] = ":" /\ IsSpace(s[p + 1])

\* a variant: the pattern is built without match_string, r"^.*(\s+|:\s).*"
TagPatternWithoutTag(s, tag) == \E p \in 1..Len(s) : SepAt(s, p)

\* re.compile(r"^.*{}(\s+|:\s).*".format(match_string)).match(text_content):
\* .* does not cross a line break, so the tag lies on the first line
TagPatternMatches(s, tag) ==
    \E p \in 1..Len(s) :
        /\ \A k \in 1..(p - 1) : s[k] # "\n"
        /\ TagAt(s, tag, p)
        /\ SepAt(s, p + Len(tag))

\* the number of digits of s from position p on
RECURSIVE RunLen(_, _)
RunLen(s, p) ==
    IF p > Len(s) \/ ~IsDigit(s[p]) THEN 0 ELSE 1 + RunLen(s, p + 1)

\* re.findall(rf"\d{{{min_length},{max_length}}}", text_content) from position p
\* on: leftmost matches, each greedy up to max_length digits
RECURSIVE FindAllFrom(_, _, _, _)
FindAllFrom(s, p, min_length, max_length) ==
    IF p > Len(s) THEN <<>>
    ELSE LET r == RunLen(s, p)
             n == IF r < max_length THEN r ELSE max_length
         IN  IF r >= min_length
             THEN <<SubSeq(s, p, p + n - 1)>>
                      \o FindAllFrom(s, p + n, min_length, max_length)
             ELSE FindAllFrom(s, p + 1, min_length, max_length)

FindAll(s, min_length, max_length) == FindAllFrom(s, 1, min_length, max_length)

(***************************************************************************)
(* The texts external writers put into the OTP directory.                  *)
(***************************************************************************)
\* the spec's scenario tag
TagMyBank == "MyBank"

\* INSTITUTION of the Chase driver
TagChase == "Chase"

\* the spec's scenario
TextScenario == "MyBank: your code is 481932"

\* a digit run longer than max_length
TextLongRun == "MyBank 1234567"

\* a digit run shorter than min_length
TextShortRun == "MyBank: 12345"

\* another institution's code
TextChase == "Chase: 13579024"

\* a longer digit run before the code
TextLongFirst == "1234567 MyBank: 481932"

\* the tag and a colon, no whitespace
TextNoSep == "MyBank:481932"

\* the code split over two lines
TextSplit == "MyBank: 481\n932\n"

\* the characters of a string, one one-character string each (files and
\* arguments hold strings; the poller works on their characters)
Chars(str) ==
    CASE str = TagMyBank ->
        <<"M", "y", "B", "a", "n", "k">>
      [] str = TagChase ->
        <<"C", "h", "a", "s", "e">>
      [] str = TextScenario ->
        <<"M", "y", "B", "a", "n", "k", ":", " ", "y", "o", "u", "r", " ",
          "c", "o", "d", "e", " ", "i", "s", " ", "4", "8", "1", "9", "3",
          "2">>
      [] str = TextLongRun ->
        <<"M", "y", "B", "a", "n", "k", " ", "1", "2", "3", "4", "5", "6",
          "7">>
      [] str = TextShortRun ->
        <<"M", "y", "B", "a", "n", "k", ":", " ", "1", "2", "3", "4", "5">>
      [] str = TextChase ->
        <<"C", "h", "a", "s", "e", ":", " ", "1", "3", "5", "7", "9", "0",
          "2", "4">>
      [] str = TextLongFirst ->
        <<"1", "2", "3", "4", "5", "6", "7", " ", "M", "y", "B", "a", "n",
          "k", ":", " ", "4", "8", "1", "9", "3", "2">>
      [] str = TextNoSep ->
        <<"M", "y", "B", "a", "n", "k", ":", "4", "8", "1", "9", "3", "2">>
      [] str = TextSplit ->
        <<"M", "y", "B", "a", "n", "k", ":", " ", "4", "8", "1", "\n", "9",
          "3", "2", "\n">>

File(ext, text) == [ext |-> ext, text |-> text]

\* what the writers add when one flow polls: texts for its tag that match,
\* whose digit run is too long or too short, that a longer run precedes, that
\* lack the separator or are split over lines, another institution's text, and
\* a file without the expected extension
SoloRelay ==
    {File(".txt", t) : t \in {TextScenario, TextLongRun, TextShortRun,
                              TextChase, TextLongFirst, TextNoSep, TextSplit}}
        \cup {File(".log", TextScenario)}

\* what the writers add when two flows poll: a text for each institution and
\* one whose digit run is too short
SharedRelay ==
    {File(".txt", t) : t \in {TextScenario, TextChase, TextShortRun}}

\* the files the writers of this run add
Relayed ==
    IF relay = "solo" THEN SoloRelay
    ELSE IF relay = "shared" THEN SharedRelay
    ELSE {}

(***************************************************************************)
(* The directory.                                                          *)
(***************************************************************************)
\* the number of file names; a name is its rank in the order sorted() uses
MaxFiles == 3

FileNames == 1..MaxFiles

\* os.listdir(filepath)
ListDir(fs) == DOMAIN fs

\* a variant: sorted(os.listdir(filepath)), the reverse flag not passed on
RECURSIVE SortedAscending(_, _)
SortedAscending(S, reverse) ==
    IF S = {} THEN <<>>
    ELSE LET n == CHOOSE x \in S : \A y \in S : x <= y
         IN  <<n>> \o SortedAscending(S \ {n}, reverse)

\* sorted(os.listdir(filepath), reverse=reverse)
RECURSIVE Sorted(_, _)
Sorted(S, reverse) ==
    IF S = {} THEN <<>>
    ELSE LET n == IF reverse
                  THEN CHOOSE x \in S : \A y \in S : y <= x
                  ELSE CHOOSE x \in S : \A y \in S : x <= y
         IN  <<n>> \o Sorted(S \ {n}, reverse)

\* the slice [:k]
TakeFirst(s, k) == SubSeq(s, 1, IF Len(s) < k THEN Len(s) ELSE k)

\* a variant: the slice [:3]
CandidatesThree(fs, reverse) == TakeFirst(Sorted(ListDir(fs), reverse), 3)

\* sorted(os.listdir(filepath), reverse=reverse)[:2]
Candidates(fs, reverse) == TakeFirst(Sorted(ListDir(fs), reverse), 2)

(***************************************************************************)
(* What a call returns or raises.                                          *)
(***************************************************************************)
NoCode == <<>>

Outcome(kind, msg, code, from) ==
    [kind |-> kind, msg |-> msg, code |-> code, from |-> from]

Pending == Outcome("pending", "", NoCode, 0)

\* raise TimeoutError("File path doesn't exist!"): the spec's PathNotFound
PathNotFound == Outcome("TimeoutError", "File path doesn't exist!", NoCode, 0)

\* raise TimeoutError("No files in file path!"): the spec's NoFilesFound
NoFilesFound == Outcome("TimeoutError", "No files in file path!", NoCode, 0)

\* raise TimeoutError(f"OTP code not found after {timeout} seconds"): CodeNotFound
CodeNotFound == Outcome("TimeoutError", "OTP code not found", NoCode, 0)

\* [0] on the empty list re.findall returned
IndexError(from) == Outcome("IndexError", "list index out of range", NoCode, from)

\* return code
Returned(code, from) == Outcome("return", "", code, from)

\* the for loop of search_files_for_int over the candidates: the outcome of
\* the first candidate that ends the call, Pending when none does
RECURSIVE ScanFiles(_, _, _)
ScanFiles(cands, fs, c) ==
    IF cands = <<>> THEN Pending
    ELSE LET filename == Head(cands)
             text_content == StripNewlines(Chars(fs[filename].text))
             found == FindAll(text_content, c.min_length, c.max_length)
         IN  IF /\ fs[filename].ext = c.file_ext
                /\ TagPatternMatches(text_content, Chars(c.match_string))
             THEN IF found = <<>> THEN IndexError(filename)
                  ELSE Returned(found[1], filename)
             ELSE ScanFiles(Tail(cands), fs, c)

(***************************************************************************)
(* The flows and their arguments.                                          *)
(***************************************************************************)
Flows == {"f1", "f2"}

\* <<timeout in milliseconds, reverse, delay in seconds>>
Timings == {<<1000, FALSE, 1>>, <<1500, TRUE, 1>>, <<1000, TRUE, 2>>,
            <<1500, FALSE, 2>>}

Config(tag, min, max, timeout, reverse, delay) ==
    [match_string |-> tag, min_length |-> min, max_length |-> max,
     timeout |-> timeout, file_ext |-> ".txt", reverse |-> reverse,
     delay |-> delay]

\* f1 is the spec's scenario (tag "MyBank", min = max = 6), f2 a driver's call
\* (tag "Chase", 6 to 10 digits)
ConfigOf(f, t) ==
    IF f = "f1" THEN Config(TagMyBank, 6, 6, t[1], t[2], t[3])
    ELSE Config(TagChase, 6, 10, t[1], t[2], t[3])

\* the arguments when one flow polls
SoloConfigs == {[f \in {"f1"} |-> ConfigOf(f, t)] : t \in Timings}

\* the arguments when two flows poll the same directory
SharedConfigs ==
    {[f \in Flows |-> ConfigOf(f, IF f = "f1" THEN t[1] ELSE t[2])] :
        t \in {<<<<1000, FALSE, 1>>, <<1500, TRUE, 1>>>>,
                <<<<1500, TRUE, 2>>, <<1000, FALSE, 1>>>>}}

\* a variant: the timeout taken for seconds, i >= timeout
TimedOutInSeconds(seconds, timeout) == seconds >= timeout

\* i >= (timeout / 1000), in milliseconds
TimedOut(seconds, timeout) == seconds * 1000 >= timeout

(***************************************************************************)
(* The external writers: the process that relays one-time codes creates    *)
(* the directory and adds files to it; it never removes or rewrites one.   *)
(***************************************************************************)
\* every flow that has called by now sees its directory changed
Touched == [f \in flows |-> changed[f] \/ round[f] # "none"]

MakeDir ==
    /\ ~dirExists
    /\ dirExists' = TRUE
    /\ changed' = Touched
    /\ UNCHANGED <<files, relay, flows, cfg, pc, i1, i2, total_delay, result, round,
                   prev, retryVars, captureVars, loginVars,
                   metricVars, batchVars, cliVars>>

WriteFile(n, file) ==
    /\ dirExists
    /\ n \notin DOMAIN files
    /\ files' = files @@ (n :> file)
    /\ changed' = Touched
    /\ UNCHANGED <<dirExists, relay, flows, cfg, pc, i1, i2, total_delay, result,
                   round, prev, retryVars, captureVars, loginVars,
                   metricVars, batchVars, cliVars>>

(***************************************************************************)
(* search_files_for_int, one action per step between two looks at the      *)
(* directory or the clock.                                                 *)
(***************************************************************************)
\* the caller invokes search_files_for_int: a flow's first call, or its
\* second (a second MFA round) once the first has returned a code; a call
\* that raises ends the retrieval
Call(f) ==
    /\ \/ /\ pc[f] = "idle"
          /\ round' = [round EXCEPT ![f] = "first"]
          /\ prev' = prev
       \/ /\ pc[f] = "done"
          /\ round[f] = "first"
          /\ result[f].kind = "return"
          /\ round' = [round EXCEPT ![f] = "second"]
          /\ prev' = [prev EXCEPT ![f] = result[f]]
    /\ pc' = [pc EXCEPT ![f] = "wait_path"]
    /\ i1' = [i1 EXCEPT ![f] = 0]
    /\ i2' = [i2 EXCEPT ![f] = 0]
    /\ total_delay' = [total_delay EXCEPT ![f] = 0]
    /\ result' = [result EXCEPT ![f] = Pending]
    /\ UNCHANGED <<dirExists, files, relay, flows, cfg, changed, retryVars,
                   captureVars, loginVars,
                   metricVars, batchVars, cliVars>>

\* a variant: search_files_for_int without its wait_for_files_in_dir call
WaitPathCheckOnly(f) ==
    /\ pc[f] = "wait_path"
    /\ pc' = [pc EXCEPT ![f] = IF dirExists THEN "poll" ELSE "wait_path_sleep"]
    /\ UNCHANGED <<dirExists, files, relay, flows, cfg, i1, i2, total_delay,
                   result, round, prev, changed, retryVars, captureVars, loginVars,
                   metricVars, batchVars, cliVars>>

\* wait_for_path_to_exist: while not os.path.exists(filepath)
WaitPathCheck(f) ==
    /\ pc[f] = "wait_path"
    /\ pc' = [pc EXCEPT ![f] = IF dirExists THEN "wait_files"
                                ELSE "wait_path_sleep"]
    /\ UNCHANGED <<dirExists, files, relay, flows, cfg, i1, i2, total_delay,
                   result, round, prev, changed, retryVars, captureVars, loginVars,
                   metricVars, batchVars, cliVars>>

\* wait_for_path_to_exist: sleep(1) is over; i += 1; if i >= (timeout / 1000): raise
WaitPathWake(f) ==
    /\ pc[f] = "wait_path_sleep"
    /\ i1' = [i1 EXCEPT ![f] = @ + 1]
    /\ IF TimedOut(i1[f] + 1, cfg[f].timeout)
       THEN /\ pc' = [pc EXCEPT ![f] = "done"]
            /\ result' = [result EXCEPT ![f] = PathNotFound]
       ELSE /\ pc' = [pc EXCEPT ![f] = "wait_path"]
            /\ result' = result
    /\ UNCHANGED <<dirExists, files, relay, flows, cfg, i2, total_delay, round, prev,
                   changed, retryVars, captureVars, loginVars,
                   metricVars, batchVars, cliVars>>

\* wait_for_files_in_dir: while not os.listdir(filepath)
WaitFilesCheck(f) ==
    /\ pc[f] = "wait_files"
    /\ pc' = [pc EXCEPT ![f] = IF ListDir(files) # {} THEN "poll"
                                ELSE "wait_files_sleep"]
    /\ UNCHANGED <<dirExists, files, relay, flows, cfg, i1, i2, total_delay,
                   result, round, prev, changed, retryVars, captureVars, loginVars,
                   metricVars, batchVars, cliVars>>

\* wait_for_files_in_dir: sleep(1) is over; i += 1; if i >= (timeout / 1000): raise
WaitFilesWake(f) ==
    /\ pc[f] = "wait_files_sleep"
    /\ i2' = [i2 EXCEPT ![f] = @ + 1]
    /\ IF TimedOut(i2[f] + 1, cfg[f].timeout)
       THEN /\ pc' = [pc EXCEPT ![f] = "done"]
            /\ result' = [result EXCEPT ![f] = NoFilesFound]
       ELSE /\ pc' = [pc EXCEPT ![f] = "wait_files"]
            /\ result' = result
    /\ UNCHANGED <<dirExists, files, relay, flows, cfg, i1, total_delay, round, prev,
                   changed, retryVars, captureVars, loginVars,
                   metricVars, batchVars, cliVars>>

\* the head of the while True loop: if total_delay >= (timeout / 1000): raise
PollCheck(f) ==
    /\ pc[f] = "poll"
    /\ IF TimedOut(total_delay[f], cfg[f].timeout)
       THEN /\ pc' = [pc EXCEPT ![f] = "done"]
            /\ result' = [result EXCEPT ![f] = CodeNotFound]
       ELSE /\ pc' = [pc EXCEPT ![f] = "poll_sleep"]
            /\ result' = result
    /\ UNCHANGED <<dirExists, files, relay, flows, cfg, i1, i2, total_delay, round,
                   prev, changed, retryVars, captureVars, loginVars,
                   metricVars, batchVars, cliVars>>

\* a variant: the file a code is returned from is removed (os.remove)
PollWakeConsuming(f) ==
    LET r == ScanFiles(Candidates(files, cfg[f].reverse), files, cfg[f])
    IN  /\ pc[f] = "poll_sleep"
        /\ total_delay' = [total_delay EXCEPT ![f] = @ + cfg[f].delay]
        /\ IF r = Pending
           THEN /\ pc' = [pc EXCEPT ![f] = "poll"]
                /\ UNCHANGED <<result, files>>
           ELSE /\ pc' = [pc EXCEPT ![f] = "done"]
                /\ result' = [result EXCEPT ![f] = r]
                /\ files' = [n \in DOMAIN files \ {r.from} |-> files[n]]
        /\ UNCHANGED <<dirExists, relay, flows, cfg, i1, i2, round, prev,
                       changed, retryVars, captureVars, loginVars,
                       metricVars, batchVars, cliVars>>

\* sleep(delay) is over; total_delay += delay; the for loop over the first two
\* entries. The files are never rewritten, so reading them one after the
\* other sees what the listing saw.
PollWake(f) ==
    LET r == ScanFiles(Candidates(files, cfg[f].reverse), files, cfg[f])
    IN  /\ pc[f] = "poll_sleep"
        /\ total_delay' = [total_delay EXCEPT ![f] = @ + cfg[f].delay]
        /\ IF r = Pending
           THEN /\ pc' = [pc EXCEPT ![f] = "poll"]
                /\ result' = result
           ELSE /\ pc' = [pc EXCEPT ![f] = "done"]
                /\ result' = [result EXCEPT ![f] = r]
        /\ UNCHANGED <<dirExists, files, relay, flows, cfg, i1, i2, round, prev,
                       changed, retryVars, captureVars, loginVars,
                       metricVars, batchVars, cliVars>>

(***************************************************************************)
(* The poller's specifications: Spec has one flow, MultiSpec two flows     *)
(* that poll the same directory.                                           *)
(***************************************************************************)
\* nothing returned or raised yet
Unset == [kind |-> "none", value |-> "", by |-> ""]

\* the page a new browser shows
StartUrl == "about:blank"

Page(url, text) == [url |-> url, text |-> text]

\* no decorated step has been called
CaptureIdle ==
    /\ errorDirExists = FALSE
    /\ writes = <<>>
    /\ wcalls = <<>>

\* no retrieval runs
LoginIdle ==
    /\ institution = "none"
    /\ mfa_auth = "none"
    /\ page = Page(StartUrl, {})
    /\ lpc = "off"
    /\ seen = <<>>
    /\ visited = <<>>
    /\ prompts = 0
    /\ otpCalls = 0
    /\ inputs = <<>>
    /\ loutcome = Unset
    /\ session = "none"

\* convert_to_prometheus is not called
MetricIdle ==
    /\ table_list = <<>>
    /\ mpc = "off"
    /\ current_balance_metrics = Unset

\* no command of the exporter runs
BatchIdle ==
    /\ banks = <<>>
    /\ jailFile = <<>>
    /\ tests_dict = <<>>
    /\ bankErrors = "missing"
    /\ bpc = "off"
    /\ jail = <<>>
    /\ bi = 0
    /\ attempts = <<>>
    /\ fetched = {}
    /\ bexit = Unset
    /\ runs = 0

ExporterIdle == MetricIdle /\ BatchIdle

\* logging.WARNING, the level a logger without a level of its own takes from
\* the root logger
WARN == 30

\* the command line interface is not started
CliIdle ==
    /\ args = [command |-> "none", verbose |-> 0]
    /\ log_level = WARN
    /\ stdout = <<>>
    /\ disk = {}
    /\ cpc = [at |-> "off", k |-> 0]

\* no call of a retry-wrapped function is made
RetryIdle ==
    /\ retries = 0
    /\ this_retries = 0
    /\ rpc = "off"
    /\ rargs = ""
    /\ passed = <<>>
    /\ raised = <<>>
    /\ sleeps = 0
    /\ outcome = [kind |-> "none", value |-> "", attempt |-> 0]
    /\ calls = 0

OtpInit(active, written, configs) ==
    /\ dirExists = FALSE
    /\ files = <<>>
    /\ relay = written
    /\ flows = active
    /\ cfg \in configs
    /\ pc = [f \in active |-> "idle"]
    /\ i1 = [f \in active |-> 0]
    /\ i2 = [f \in active |-> 0]
    /\ total_delay = [f \in active |-> 0]
    /\ result = [f \in active |-> Pending]
    /\ round = [f \in active |-> "none"]
    /\ prev = [f \in active |-> Pending]
    /\ changed = [f \in active |-> FALSE]

Init ==
    OtpInit({"f1"}, "solo", SoloConfigs) /\ RetryIdle /\ CaptureIdle /\ LoginIdle
        /\ ExporterIdle
        /\ CliIdle

MultiInit ==
    OtpInit(Flows, "shared", SharedConfigs) /\ RetryIdle /\ CaptureIdle /\ LoginIdle
        /\ ExporterIdle
        /\ CliIdle

Next ==
    \/ MakeDir
    \/ \E n \in FileNames, file \in Relayed : WriteFile(n, file)
    \/ \E f \in flows : Call(f)
    \/ \E f \in flows : WaitPathCheck(f)
    \/ \E f \in flows : WaitPathWake(f)
    \/ \E f \in flows : WaitFilesCheck(f)
    \/ \E f \in flows : WaitFilesWake(f)
    \/ \E f \in flows : PollCheck(f)
    \/ \E f \in flows : PollWake(f)

Spec == Init /\ [][Next]_vars

MultiSpec == MultiInit /\ [][Next]_vars

\* the arguments of calls made with delay = 0 and with delay = 1
ZeroDelayTimings == {<<1000, FALSE, 0>>, <<1000, FALSE, 1>>}

ZeroDelayConfigs == {[f \in {"f1"} |-> ConfigOf(f, t)] : t \in ZeroDelayTimings}

PollInit ==
    /\ OtpInit({"f1"}, "solo", ZeroDelayConfigs)
    /\ RetryIdle
    /\ CaptureIdle
    /\ LoginIdle
    /\ ExporterIdle
    /\ CliIdle

\* a step of search_files_for_int once it has been called
Step(f) ==
    \/ WaitPathCheck(f)
    \/ WaitPathWake(f)
    \/ WaitFilesCheck(f)
    \/ WaitFilesWake(f)
    \/ PollCheck(f)
    \/ PollWake(f)

\* the one flow polls while the directory is made and written to or not; a
\* call that has started keeps running: its checks take their turn and each
\* sleep ends
PollSpec == PollInit /\ [][Next]_vars /\ WF_vars(Step("f1"))

\* Two retrievals as coroutines of one event loop (asyncio.run): a coroutine
\* runs until its next await. search_files_for_int is a plain function that
\* its async caller calls without await, and it waits in time.sleep: from the
\* call to its return or raise there is no await, so no other coroutine of
\* the loop runs in between. Other processes still write the directory.
HoldsLoop(f) == \A g \in flows \ {f} : pc[g] \in {"idle", "done"}

\* the event loop runs flow f
Run(f) == HoldsLoop(f) /\ (Call(f) \/ Step(f))

LoopNext ==
    \/ MakeDir
    \/ \E n \in FileNames, file \in Relayed : WriteFile(n, file)
    \/ \E f \in flows : Run(f)

LoopSpec == MultiInit /\ [][LoopNext]_vars

(***************************************************************************)
(* The retry decorator, applied as on request_ok: func raises or returns   *)
(* whatever the remote end makes it.                                       *)
(***************************************************************************)
\* the largest retries argument
MaxRetries == 3

\* the calls of the wrapped function in one run
MaxCalls == 2

\* the arguments a caller passes
ArgValues == {"url1", "url2"}

\* what func returns
ReturnValues == {"response1", "response2"}

\* the errors func raises
ErrorTypes == {"AssertionError", "ConnectionError", "KeyError"}

\* @retry(exceptions=(AssertionError, requests.exceptions.ConnectionError))
Whitelist == {"AssertionError", "ConnectionError"}

\* a variant: except Exception as e
CaughtAll(type) == TRUE

\* except exceptions as e
Caught(type) == type \in Whitelist

\* a variant: while this_retries > 1
AttemptingAboveOne(n) == n > 1

\* while this_retries > 0
Attempting(n) == n > 0

\* a variant: if this_retries == 0: raise
LastAttemptAtZero(n) == n = 0

\* if this_retries == 1: raise
LastAttempt(n) == n = 1

\* the error object func raises at its attempt-th invocation
Error(type, attempt) == [kind |-> "raise", value |-> type, attempt |-> attempt]

\* the value func returns at its attempt-th invocation
Value(v, attempt) == [kind |-> "return", value |-> v, attempt |-> attempt]

\* falling off the end of _retry returns None, after no invocation
None == [kind |-> "return", value |-> "None", attempt |-> 0]

\* a variant: the budget belongs to the decorator and is counted down across
\* the calls (retries -= 1 on the nonlocal), so a call starts with what the
\* call before it left
RetryCallSharedBudget(a) ==
    /\ rpc \in {"idle", "done"}
    /\ calls < MaxCalls
    /\ calls' = calls + 1
    /\ rargs' = a
    /\ this_retries' = IF calls = 0 THEN retries ELSE this_retries
    /\ passed' = <<>>
    /\ raised' = <<>>
    /\ sleeps' = 0
    /\ outcome' = [kind |-> "none", value |-> "", attempt |-> 0]
    /\ rpc' = "loop"
    /\ UNCHANGED <<retries, otpVars, captureVars, loginVars,
                   metricVars, batchVars, cliVars>>

\* a caller calls the wrapped function: this_retries = retries
RetryCall(a) ==
    /\ rpc \in {"idle", "done"}
    /\ calls < MaxCalls
    /\ calls' = calls + 1
    /\ rargs' = a
    /\ this_retries' = retries
    /\ passed' = <<>>
    /\ raised' = <<>>
    /\ sleeps' = 0
    /\ outcome' = [kind |-> "none", value |-> "", attempt |-> 0]
    /\ rpc' = "loop"
    /\ UNCHANGED <<retries, otpVars, captureVars, loginVars,
                   metricVars, batchVars, cliVars>>

\* return func(*args, **kwargs), func returning v
AttemptReturns(v) ==
    /\ rpc = "loop"
    /\ Attempting(this_retries)
    /\ passed' = Append(passed, rargs)
    /\ outcome' = Value(v, Len(passed) + 1)
    /\ rpc' = "done"
    /\ UNCHANGED <<retries, this_retries, rargs, raised, sleeps, calls, otpVars,
                   captureVars, loginVars,
                   metricVars, batchVars, cliVars>>

\* a variant: the error of the first failed attempt is kept and raised when the
\* attempts are used up (raise first_error)
AttemptRaisesKeepingFirst(type) ==
    LET e == Error(type, Len(passed) + 1)
    IN  /\ rpc = "loop"
        /\ Attempting(this_retries)
        /\ passed' = Append(passed, rargs)
        /\ raised' = Append(raised, e)
        /\ IF Caught(type) /\ ~LastAttempt(this_retries)
           THEN /\ this_retries' = this_retries - 1
                /\ sleeps' = sleeps + 1
                /\ UNCHANGED <<rpc, outcome>>
           ELSE /\ outcome' = IF raised = <<>> THEN e ELSE raised[1]
                /\ rpc' = "done"
                /\ UNCHANGED <<this_retries, sleeps>>
        /\ UNCHANGED <<retries, rargs, calls, otpVars, captureVars, loginVars,
                       metricVars, batchVars, cliVars>>

\* func(*args, **kwargs) raises an error of the given type: an error outside
\* exceptions propagates, one in exceptions is re-raised when this_retries == 1
\* and else followed by this_retries -= 1 and time.sleep(delay)
AttemptRaises(type) ==
    LET e == Error(type, Len(passed) + 1)
    IN  /\ rpc = "loop"
        /\ Attempting(this_retries)
        /\ passed' = Append(passed, rargs)
        /\ raised' = Append(raised, e)
        /\ IF Caught(type) /\ ~LastAttempt(this_retries)
           THEN /\ this_retries' = this_retries - 1
                /\ sleeps' = sleeps + 1
                /\ UNCHANGED <<rpc, outcome>>
           ELSE /\ outcome' = e
                /\ rpc' = "done"
                /\ UNCHANGED <<this_retries, sleeps>>
        /\ UNCHANGED <<retries, rargs, calls, otpVars, captureVars, loginVars,
                       metricVars, batchVars, cliVars>>

\* the while loop ends without an attempt left: _retry returns None
LoopExit ==
    /\ rpc = "loop"
    /\ ~Attempting(this_retries)
    /\ outcome' = None
    /\ rpc' = "done"
    /\ UNCHANGED <<retries, this_retries, rargs, passed, raised, sleeps, calls,
                   otpVars, captureVars, loginVars,
                   metricVars, batchVars, cliVars>>

\* no flow polls
OtpIdle == OtpInit({}, "none", {<<>>})

RetryInit ==
    /\ OtpIdle
    /\ CaptureIdle
    /\ LoginIdle
    /\ ExporterIdle
    /\ CliIdle
    /\ retries \in (0 - 1)..MaxRetries
    /\ this_retries = 0
    /\ rpc = "idle"
    /\ rargs = ""
    /\ passed = <<>>
    /\ raised = <<>>
    /\ sleeps = 0
    /\ outcome = [kind |-> "none", value |-> "", attempt |-> 0]
    /\ calls = 0

RetryNext ==
    \/ \E a \in ArgValues : RetryCall(a)
    \/ \E v \in ReturnValues : AttemptReturns(v)
    \/ \E type \in ErrorTypes : AttemptRaises(type)
    \/ LoopExit

RetrySpec == RetryInit /\ [][RetryNext]_vars

(***************************************************************************)
(* The screenshot_on_timeout decorator. The steps of the Playwright        *)
(* integrations are coroutine functions (async def) and their callers      *)
(* await the decorated step; the steps of the Selenium integrations are    *)
(* plain functions (def) and their callers call the decorated step without *)
(* await. _screenshot_on_timeout is a coroutine function in both cases.    *)
(***************************************************************************)
\* the calls of decorated steps in one process
MaxWrappedCalls == 3

\* the decorated steps of the run
WrappedSteps ==
    {"fidelity_netbenefits.wait_for_redirect",
     "fidelity_netbenefits.is_mfa_redirect",
     "chase.wait_for_redirect"}

\* the step is declared async def
IsCoroutineFunction(step) ==
    step \in {"fidelity_netbenefits.wait_for_redirect",
              "fidelity_netbenefits.is_mfa_redirect"}

\* INSTITUTION of the step's module
InstitutionOf(step) ==
    IF step = "chase.wait_for_redirect" THEN TagChase
    ELSE "Fidelity NetBenefits"

\* datetime.now() in the decorator's argument: evaluated once per decorated
\* step, when the module is imported; a later decoration has a later stamp
DecoratedAt(step) ==
    CASE step = "fidelity_netbenefits.logon" -> 0
      [] step = "fidelity_netbenefits.wait_for_redirect" -> 1
      [] step = "fidelity_netbenefits.is_mfa_redirect" -> 2
      [] step = "chase.wait_for_redirect" -> 3
      [] step = "fidelity_netbenefits.handle_mfa_redirect" -> 4
      [] step = "fidelity_netbenefits.seek_accounts_data" -> 5

\* f"{ERROR_DIR}/{datetime.now()}_{INSTITUTION}.png", the decorator's save_path
SavePath(step) ==
    [dir |-> "errors", stamp |-> DecoratedAt(step),
     institution |-> InstitutionOf(step), ext |-> ".png"]

\* the step returns v
Returns(v) == [kind |-> "return", value |-> v, by |-> "func"]

\* an error of the given type is raised by func, os.makedirs or
\* driver.screenshot
Raises(type, by) == [kind |-> "raise", value |-> type, by |-> by]

\* what calling a coroutine function gives: a coroutine object, whose body has
\* not run; none of the callers of a plain decorated step awaits it
CoroutineObject == [kind |-> "return", value |-> "coroutine", by |-> "wrapper"]

\* what a step returns: wait_for_redirect None, is_mfa_redirect a bool
StepValues(step) ==
    IF step = "fidelity_netbenefits.is_mfa_redirect" THEN {"True", "False"}
    ELSE {"None"}

\* the errors a step raises: Playwright's TimeoutError, AssertionError (expect),
\* Selenium's NoSuchElementException, and another error
StepErrors ==
    {"PlaywrightTimeoutError", "AssertionError", "NoSuchElementException",
     "KeyError"}

\* what the step does when it runs in a call
Behaviours(step) ==
    {Returns(v) : v \in StepValues(step)}
        \cup {Raises(type, "func") : type \in StepErrors}

\* except (PlaywrightTimeoutError, AssertionError)
Handled(type) == type \in {"PlaywrightTimeoutError", "AssertionError"}

\* what may go wrong in the except clause
CaptureFaults == {"none", "makedirs", "screenshot"}

WrappedCall(step, does, ran, status, out) ==
    [step |-> step, does |-> does, ran |-> ran, status |-> status,
     outcome |-> out, handled |-> FALSE, shots |-> 0]

\* the call under way, 0 when there is none
Running ==
    IF wcalls # <<>> /\ wcalls[Len(wcalls)].status = "running"
    THEN Len(wcalls) ELSE 0

\* await step(page, ...): _screenshot_on_timeout starts and awaits func
AwaitWrapped(step, does) ==
    /\ IsCoroutineFunction(step)
    /\ Running = 0
    /\ Len(wcalls) < MaxWrappedCalls
    /\ wcalls' = Append(wcalls, WrappedCall(step, does, TRUE, "running", Unset))
    /\ UNCHANGED <<errorDirExists, writes, otpVars, retryVars, loginVars,
                   metricVars, batchVars, cliVars>>

\* step(driver, wait): the call of _screenshot_on_timeout makes a coroutine
\* object and returns it; func is not called
CallWrapped(step, does) ==
    /\ ~IsCoroutineFunction(step)
    /\ Running = 0
    /\ Len(wcalls) < MaxWrappedCalls
    /\ wcalls' = Append(wcalls,
                        WrappedCall(step, does, FALSE, "ended", CoroutineObject))
    /\ UNCHANGED <<errorDirExists, writes, otpVars, retryVars, loginVars,
                   metricVars, batchVars, cliVars>>

\* return await func(*args, **kwargs)
FuncReturns ==
    /\ Running # 0
    /\ wcalls[Running].does.kind = "return"
    /\ wcalls' = [wcalls EXCEPT ![Running].status = "ended",
                                ![Running].outcome = wcalls[Running].does]
    /\ UNCHANGED <<errorDirExists, writes, otpVars, retryVars, loginVars,
                   metricVars, batchVars, cliVars>>

\* func raises: an error outside the except clause propagates; for one inside,
\* os.makedirs(os.path.dirname(save_path), exist_ok=True), then
\* await driver.screenshot(path=save_path), then raise. An error raised by
\* os.makedirs or by driver.screenshot leaves the except clause in place of
\* the error that entered it.
FuncRaises(fault) ==
    LET k == Running
        e == wcalls[k].does
    IN  /\ k # 0
        /\ e.kind = "raise"
        /\ \/ /\ ~Handled(e.value)
              /\ fault = "none"
              /\ wcalls' = [wcalls EXCEPT ![k].status = "ended",
                                          ![k].outcome = e]
              /\ UNCHANGED <<errorDirExists, writes>>
           \/ /\ Handled(e.value)
              /\ fault = "makedirs"
              /\ ~errorDirExists
              /\ wcalls' = [wcalls EXCEPT ![k].status = "ended",
                                          ![k].handled = TRUE,
                                          ![k].outcome =
                                              Raises("OSError", "makedirs")]
              /\ UNCHANGED <<errorDirExists, writes>>
           \/ /\ Handled(e.value)
              /\ fault = "screenshot"
              /\ errorDirExists' = TRUE
              /\ wcalls' = [wcalls EXCEPT ![k].status = "ended",
                                          ![k].handled = TRUE,
                                          ![k].shots = 1,
                                          ![k].outcome =
                                              Raises("PlaywrightError",
                                                     "screenshot")]
              /\ UNCHANGED writes
           \/ /\ Handled(e.value)
              /\ fault = "none"
              /\ errorDirExists' = TRUE
              /\ writes' = Append(writes, [path |-> SavePath(wcalls[k].step),
                                           call |-> k])
              /\ wcalls' = [wcalls EXCEPT ![k].status = "ended",
                                          ![k].handled = TRUE,
                                          ![k].shots = 1,
                                          ![k].outcome = e]
        /\ UNCHANGED <<otpVars, retryVars, loginVars,
                       metricVars, batchVars, cliVars>>

CaptureNext ==
    \/ \E step \in WrappedSteps : \E does \in Behaviours(step) :
           AwaitWrapped(step, does)
    \/ \E step \in WrappedSteps : \E does \in Behaviours(step) :
           CallWrapped(step, does)
    \/ FuncReturns
    \/ \E fault \in CaptureFaults : FuncRaises(fault)

(***************************************************************************)
(* The login of a retrieval: get_accounts_info of the Chase integration    *)
(* (Selenium, plain functions) and run of the Fidelity NetBenefits         *)
(* integration (Playwright, coroutine functions). What the session shows   *)
(* is up to the browser and the far end, which may change it at any time.  *)
(***************************************************************************)
Institutions == {"chase", "fidelity_netbenefits"}

\* a page of the Chase login
ChaseAuthUrl == "https://secure.chase.com/web/auth/#/logon/logon/chaseOnline"

\* the Chase landing page
ChaseDashboardUrl ==
    "https://secure.chase.com/web/auth/dashboard#/dashboard/overview"

\* HOMEPAGE of the Fidelity NetBenefits driver
FidelityUrl == "https://nb.fidelity.com/static/mybenefits/netbenefitslogin/#/login"

\* the phrases the Chase predicates look for in driver.page_source
ChaseNotRecognized == "We don't recognize this device"
ChaseMakeSure == "Let's make sure it's you"
ChaseCantFind == "We can't find that username and password"
ChaseKeepInMind ==
    "Keep in mind: You won't be able to see your statements and notices until you reset your password."

\* the phrases the Fidelity predicates look for
FidelityVerify == "To verify it's you"
FidelityAccounts == "Your accounts and benefits"

\* "chase.com/web/auth/" in url
InChaseAuth(url) == url \in {ChaseAuthUrl, ChaseDashboardUrl}

\* "chase.com/web/auth/dashboard#/dashboard/overview" in url
InChaseDashboard(url) == url = ChaseDashboardUrl

\* the pages the session of an integration may show
Pages(inst) ==
    IF inst = "chase"
    THEN {Page(u, t) :
            u \in {StartUrl, ChaseAuthUrl, ChaseDashboardUrl},
            t \in SUBSET {ChaseNotRecognized, ChaseMakeSure, ChaseCantFind,
                          ChaseKeepInMind}}
    ELSE {Page(u, t) :
            u \in {StartUrl, FidelityUrl},
            t \in SUBSET {FidelityVerify, FidelityAccounts}}

\* chase: is_mfa_redirect(driver)
is_mfa_redirect(p) == InChaseAuth(p.url) /\ ChaseNotRecognized \in p.text

\* chase: is_mfa_redirect_alternate(driver)
is_mfa_redirect_alternate(p) == InChaseAuth(p.url) /\ ChaseMakeSure \in p.text

\* chase: password_needs_reset(driver)
password_needs_reset(p) ==
    /\ InChaseAuth(p.url)
    /\ ChaseCantFind \in p.text
    /\ ChaseKeepInMind \in p.text

\* fidelity_netbenefits: wait_for_redirect's target_text is visible
fidelity_target_visible(p) == p.text \cap {FidelityVerify, FidelityAccounts} # {}

\* a variant: is_mfa_redirect tests that the landing text is not visible
fidelity_landing_not_visible(p) == FidelityAccounts \notin p.text

\* fidelity_netbenefits: is_mfa_redirect(page)
fidelity_is_mfa_redirect(p) == FidelityVerify \in p.text

\* exit(1)
SystemExit == Raises("SystemExit", "exit(1)")

\* the retrieval returns its tables
Tables == Returns("tables")

\* the retrieval ends raising the error e
\* what leaving get_accounts_info does to the session: fidelity_netbenefits
\* launches its browser inside "async with async_playwright() as playwright",
\* whose exit stops the browser on a return and on an error alike; chase has
\* driver.quit() as a statement after the tables are parsed, which no error
\* and no exit(1) before it reaches
Left == IF institution = "fidelity_netbenefits" THEN "closed" ELSE session

Fails(e) ==
    /\ lpc' = "done"
    /\ visited' = Append(visited, "Error")
    /\ loutcome' = e
    /\ session' = Left

\* a decorated coroutine step of the retrieval raises e, which leaves the step
\* through _screenshot_on_timeout: for an error of its except clause,
\* os.makedirs, then driver.screenshot(path=save_path), then raise; an error
\* of os.makedirs or of driver.screenshot takes the place of e
RaisesThrough(step, e) ==
    IF ~Handled(e.value)
    THEN Fails(e) /\ UNCHANGED captureVars
    ELSE /\ UNCHANGED wcalls
         /\ \/ /\ ~errorDirExists
               /\ Fails(Raises("OSError", "makedirs"))
               /\ UNCHANGED <<errorDirExists, writes>>
            \/ /\ errorDirExists' = TRUE
               /\ Fails(Raises("PlaywrightError", "screenshot"))
               /\ UNCHANGED writes
            \/ /\ errorDirExists' = TRUE
               /\ writes' = Append(writes, [path |-> SavePath(step),
                                            call |-> 0])
               /\ Fails(e)

\* the browser or the far end changes what the session shows
FarEnd(p) ==
    /\ lpc \notin {"off", "done"}
    /\ p # page
    /\ page' = p
    /\ UNCHANGED <<institution, mfa_auth, lpc, seen, visited, prompts, otpCalls,
                   inputs, loutcome, session, otpVars, retryVars, captureVars,
                   metricVars, batchVars, cliVars>>

\* chase: logon(driver, wait, HOMEPAGE, username, password) and
\* wait_for_redirect(driver, wait). Both are decorated plain functions: each
\* call makes a coroutine object that is dropped, and neither body runs, so
\* nothing is sent to the session and nothing is waited for.
ChaseLogon ==
    /\ institution = "chase"
    /\ lpc = "logon"
    /\ lpc' = "classify"
    /\ visited' = Append(visited, "Authenticating")
    /\ UNCHANGED <<institution, mfa_auth, page, seen, prompts, otpCalls, inputs,
                   loutcome, session, otpVars, retryVars, captureVars,
                   metricVars, batchVars, cliVars>>

\* a variant: the password-reset branch logs the error and goes on
ChaseClassifyLogOnly ==
    /\ institution = "chase"
    /\ lpc = "classify"
    /\ seen' = Append(seen, page)
    /\ lpc' = "wait_for_landing_page"
    /\ visited' =
           IF is_mfa_redirect(page) \/ is_mfa_redirect_alternate(page)
           THEN Append(visited, "AwaitingChallenge")
           ELSE IF password_needs_reset(page)
           THEN Append(visited, "PasswordResetRequired")
           ELSE visited
    /\ UNCHANGED <<institution, mfa_auth, page, prompts, otpCalls, inputs,
                   loutcome, session, otpVars, retryVars, captureVars,
                   metricVars, batchVars, cliVars>>

\* chase: if is_mfa_redirect(driver): handle_multi_factor_authentication(...)
\* elif is_mfa_redirect_alternate(driver): ..._alternate(...)
\* elif password_needs_reset(driver): log.error(...); exit(1)
\* Both handlers are decorated plain functions: the call makes a coroutine
\* object and the handler's body does not run.
ChaseClassify ==
    /\ institution = "chase"
    /\ lpc = "classify"
    /\ seen' = Append(seen, page)
    /\ IF is_mfa_redirect(page) \/ is_mfa_redirect_alternate(page)
       THEN /\ visited' = Append(visited, "AwaitingChallenge")
            /\ lpc' = "wait_for_landing_page"
            /\ UNCHANGED <<loutcome, session>>
       ELSE IF password_needs_reset(page)
       THEN /\ visited' = Append(visited, "PasswordResetRequired")
            /\ lpc' = "done"
            /\ loutcome' = SystemExit
            /\ session' = Left
       ELSE /\ lpc' = "wait_for_landing_page"
            /\ UNCHANGED <<visited, loutcome, session>>
    /\ UNCHANGED <<institution, mfa_auth, page, prompts, otpCalls, inputs,
                   otpVars, retryVars, captureVars,
                   metricVars, batchVars, cliVars>>

\* chase: wait_for_landing_page(driver, wait), a decorated plain function:
\* nothing is waited for
ChaseWaitForLandingPage ==
    /\ institution = "chase"
    /\ lpc = "wait_for_landing_page"
    /\ lpc' = "extract"
    /\ visited' = Append(visited, "Authenticated")
    /\ UNCHANGED <<institution, mfa_auth, page, seen, prompts, otpCalls, inputs,
                   loutcome, session, otpVars, retryVars, captureVars,
                   metricVars, batchVars, cliVars>>

\* chase: seek_accounts_data, get_account_number and get_detail_tables are
\* decorated plain functions; tables is a coroutine object and
\* for t in tables raises TypeError
ChaseExtract ==
    /\ institution = "chase"
    /\ lpc = "extract"
    /\ Fails(Raises("TypeError", "for t in tables"))
    /\ UNCHANGED <<institution, mfa_auth, page, seen, prompts, otpCalls, inputs,
                   otpVars, retryVars, captureVars,
                   metricVars, batchVars, cliVars>>

\* fidelity_netbenefits: await logon(page, username, password) fills in the
\* credentials and clicks the submit button, or times out
FidelityLogon ==
    /\ institution = "fidelity_netbenefits"
    /\ lpc = "logon"
    /\ \/ /\ lpc' = "wait_for_redirect"
          /\ visited' = Append(visited, "Authenticating")
          /\ inputs' = inputs \o <<"username", "password", "submit">>
          /\ UNCHANGED <<loutcome, session, captureVars>>
       \/ /\ RaisesThrough("fidelity_netbenefits.logon",
                           Raises("PlaywrightTimeoutError", "logon"))
          /\ UNCHANGED inputs
    /\ UNCHANGED <<institution, mfa_auth, page, seen, prompts, otpCalls,
                   otpVars, retryVars,
                   metricVars, batchVars, cliVars>>

\* fidelity_netbenefits: await wait_for_redirect(page):
\* expect(page.get_by_text(target_text)).to_be_visible(timeout=TIMEOUT) returns
\* once the text is visible and raises AssertionError when it is not by the
\* timeout; with both texts visible the locator matches two elements, which
\* the strict locator may refuse
FidelityWaitForRedirect ==
    /\ institution = "fidelity_netbenefits"
    /\ lpc = "wait_for_redirect"
    /\ \/ /\ fidelity_target_visible(page)
          /\ lpc' = "is_mfa_redirect"
          /\ UNCHANGED <<visited, loutcome, session, captureVars>>
       \/ /\ ~fidelity_target_visible(page)
          /\ RaisesThrough("fidelity_netbenefits.wait_for_redirect",
                           Raises("AssertionError", "wait_for_redirect"))
       \/ /\ {FidelityVerify, FidelityAccounts} \subseteq page.text
          /\ RaisesThrough("fidelity_netbenefits.wait_for_redirect",
                           Raises("PlaywrightError", "wait_for_redirect"))
    /\ UNCHANGED <<institution, mfa_auth, page, seen, prompts, otpCalls, inputs,
                   otpVars, retryVars,
                   metricVars, batchVars, cliVars>>

\* fidelity_netbenefits: if await is_mfa_redirect(page):
\*     await handle_mfa_redirect(page, mfa_auth)
FidelityIsMfaRedirect ==
    /\ institution = "fidelity_netbenefits"
    /\ lpc = "is_mfa_redirect"
    /\ seen' = Append(seen, page)
    /\ IF fidelity_is_mfa_redirect(page)
       THEN /\ lpc' = "contact_option"
            /\ visited' = Append(visited, "AwaitingChallenge")
       ELSE /\ lpc' = "seek_accounts_data"
            /\ visited' = Append(visited, "Authenticated")
    /\ UNCHANGED <<institution, mfa_auth, page, prompts, otpCalls, inputs,
                   loutcome, session, otpVars, retryVars, captureVars,
                   metricVars, batchVars, cliVars>>

\* handle_mfa_redirect up to the click on the contact option: the option comes
\* from input("Please select one: ") or from mfa_auth["otp_contact_option"];
\* page.wait_for_selector("pvd-button") may time out
FidelityContactOption ==
    /\ institution = "fidelity_netbenefits"
    /\ lpc = "contact_option"
    /\ \/ /\ prompts' = IF mfa_auth = "none" THEN prompts + 1 ELSE prompts
          /\ inputs' = Append(inputs, "contact_option")
          /\ lpc' = "otp"
          /\ UNCHANGED <<visited, loutcome, session, captureVars>>
       \/ /\ RaisesThrough("fidelity_netbenefits.handle_mfa_redirect",
                           Raises("PlaywrightTimeoutError",
                                  "handle_mfa_redirect"))
          /\ UNCHANGED <<prompts, inputs>>
    /\ UNCHANGED <<institution, mfa_auth, page, seen, otpCalls, otpVars,
                   retryVars,
                   metricVars, batchVars, cliVars>>

\* handle_mfa_redirect from the OTP on: the code comes from
\* input("Enter OTP Code: ") or from search_files_for_int(...), which returns
\* a code or raises; the code is typed and submitted, and
\* page.expect_navigation returns or times out
FidelityOtp ==
    /\ institution = "fidelity_netbenefits"
    /\ lpc = "otp"
    /\ prompts' = IF mfa_auth = "none" THEN prompts + 1 ELSE prompts
    /\ otpCalls' = IF mfa_auth = "none" THEN otpCalls ELSE otpCalls + 1
    /\ \/ /\ inputs' = inputs \o <<"otp_code", "submit">>
          /\ lpc' = "seek_accounts_data"
          /\ visited' = Append(visited, "Authenticated")
          /\ UNCHANGED <<loutcome, session, captureVars>>
       \/ /\ inputs' = inputs \o <<"otp_code", "submit">>
          /\ RaisesThrough("fidelity_netbenefits.handle_mfa_redirect",
                           Raises("PlaywrightTimeoutError",
                                  "handle_mfa_redirect"))
       \/ /\ mfa_auth = "config"
          /\ RaisesThrough("fidelity_netbenefits.handle_mfa_redirect",
                           Raises("TimeoutError", "search_files_for_int"))
          /\ UNCHANGED inputs
    /\ UNCHANGED <<institution, mfa_auth, page, seen, otpVars, retryVars,
                   metricVars, batchVars, cliVars>>

\* fidelity_netbenefits: await seek_accounts_data(page, tmp) and the parsing
\* of the download
FidelitySeekAccountsData ==
    /\ institution = "fidelity_netbenefits"
    /\ lpc = "seek_accounts_data"
    /\ \/ /\ lpc' = "done"
          /\ loutcome' = Tables
          /\ session' = Left
          /\ UNCHANGED <<visited, captureVars>>
       \/ RaisesThrough("fidelity_netbenefits.seek_accounts_data",
                        Raises("PlaywrightTimeoutError", "seek_accounts_data"))
    /\ UNCHANGED <<institution, mfa_auth, page, seen, prompts, otpCalls, inputs,
                   otpVars, retryVars,
                   metricVars, batchVars, cliVars>>

CaptureInit ==
    /\ OtpIdle
    /\ RetryIdle
    /\ ExporterIdle
    /\ CliIdle
    /\ LoginIdle
    /\ errorDirExists \in BOOLEAN
    /\ writes = <<>>
    /\ wcalls = <<>>

CaptureSpec == CaptureInit /\ [][CaptureNext]_vars

\* a retrieval starts with a new browser, with or without an MFA automation
\* config
LoginInit ==
    /\ OtpIdle
    /\ RetryIdle
    /\ ExporterIdle
    /\ CliIdle
    /\ CaptureIdle
    /\ institution \in Institutions
    /\ mfa_auth \in {"none", "config"}
    /\ page = Page(StartUrl, {})
    /\ lpc = "logon"
    /\ seen = <<>>
    /\ visited = <<>>
    /\ prompts = 0
    /\ otpCalls = 0
    /\ inputs = <<>>
    /\ loutcome = Unset
    /\ session = "open"

LoginNext ==
    \/ \E p \in Pages(institution) : FarEnd(p)
    \/ ChaseLogon
    \/ ChaseClassify
    \/ ChaseWaitForLandingPage
    \/ ChaseExtract
    \/ FidelityLogon
    \/ FidelityWaitForRedirect
    \/ FidelityIsMfaRedirect
    \/ FidelityContactOption
    \/ FidelityOtp
    \/ FidelitySeekAccountsData

LoginSpec == LoginInit /\ [][LoginNext]_vars

(***************************************************************************)
(* convert_to_prometheus: the tables of a retrieval (pandas DataFrames)    *)
(* are turned into a list of metrics, ([institution, account,              *)
(* account_type, symbol], balance) for each row of each table that has the *)
(* four columns the call names. A value is kept as its text.               *)
(***************************************************************************)
\* the tables of one call
MaxTables == 2

\* the rows of one table
MaxRows == 3

\* the column arguments of the call
account_column == "account"
symbol_column == "symbol"
current_balance_column == "balance"
account_type_column == "account_type"

\* the institution argument of the call
InstitutionLabel == "Bank"

\* a float cell that is null: what pd.to_numeric(errors="coerce") leaves for a
\* cell that is no number
NaN == "nan"

\* the rows a retrieval's table may hold
RowPool ==
    {[account |-> "1", account_type |-> "deposit", symbol |-> "USD",
      balance |-> "100.0"],
     [account |-> "2", account_type |-> "credit", symbol |-> "JPY",
      balance |-> NaN]}

\* the sequences over S of length at most n
SeqsUpTo(S, n) == UNION {[1..k -> S] : k \in 0..n}

\* the four columns the call names
RequiredColumns ==
    {account_column, symbol_column, current_balance_column, account_type_column}

\* t.columns of the tables: all four columns, or one of them lacking
ColumnSets == {RequiredColumns} \cup {RequiredColumns \ {c} : c \in RequiredColumns}

\* a DataFrame with the given columns and rows
DataFrame(columns, rows) ==
    [columns |-> columns,
     rows |-> [i \in DOMAIN rows |-> [c \in columns |-> rows[i][c]]]]

\* the tables of a retrieval; the rows of a table that lacks a column are
\* never read, so those tables differ in their columns and their length only
DataFrames ==
    {DataFrame(RequiredColumns, rows) : rows \in SeqsUpTo(RowPool, MaxRows)}
        \cup {DataFrame(columns, rows) :
                 columns \in ColumnSets \ {RequiredColumns},
                 rows \in SeqsUpTo({CHOOSE r \in RowPool : r.balance # NaN},
                                   MaxRows)}

\* all([account_column in t.columns, current_balance_column in t.columns,
\*      account_type_column in t.columns, symbol_column in t.columns])
AllColumns(t) ==
    /\ account_column \in t.columns
    /\ current_balance_column \in t.columns
    /\ account_type_column \in t.columns
    /\ symbol_column \in t.columns

\* a variant: the labels with the account type before the account
MetricTypeFirst(institution_, row) ==
    [labels |-> <<institution_, row[account_type_column], row[account_column],
                  row[symbol_column]>>,
     value |-> row[current_balance_column]]

\* ([institution, account, account_type, symbol], current_balance)
Metric(institution_, row) ==
    [labels |-> <<institution_, row[account_column], row[account_type_column],
                  row[symbol_column]>>,
     value |-> row[current_balance_column]]

\* for _, row in t.iterrows(): current_balance_metrics.append(...)
RECURSIVE IterRows(_, _, _)
IterRows(rows, institution_, metrics) ==
    IF Len(rows) = 0 THEN metrics
    ELSE IterRows(Tail(rows), institution_,
                  Append(metrics, Metric(institution_, Head(rows))))

\* a variant: a table that lacks a column ends the loop with no metric kept
RECURSIVE ForTablesStrict(_, _, _)
ForTablesStrict(tables, institution_, metrics) ==
    IF Len(tables) = 0 THEN metrics
    ELSE IF AllColumns(Head(tables))
    THEN ForTablesStrict(Tail(tables), institution_,
                         IterRows(Head(tables).rows, institution_, metrics))
    ELSE <<>>

\* for t in table_list: if all([...]): for _, row in t.iterrows(): ...
RECURSIVE ForTables(_, _, _)
ForTables(tables, institution_, metrics) ==
    IF Len(tables) = 0 THEN metrics
    ELSE ForTables(Tail(tables), institution_,
                   IF AllColumns(Head(tables))
                   THEN IterRows(Head(tables).rows, institution_, metrics)
                   ELSE metrics)

\* a variant: convert_to_prometheus without assert current_balance_metrics
convert_without_assert(tables, institution_) ==
    [kind |-> "return", value |-> ForTables(tables, institution_, <<>>),
     by |-> "func"]

\* convert_to_prometheus(table_list, institution, account_column,
\* symbol_column, current_balance_column, account_type_column): the loop, then
\* assert current_balance_metrics, whose AssertionError is logged and raised
\* again, then return current_balance_metrics
convert_to_prometheus(tables, institution_) ==
    LET metrics == ForTables(tables, institution_, <<>>)
    IN  IF Len(metrics) # 0
        THEN [kind |-> "return", value |-> metrics, by |-> "func"]
        ELSE [kind |-> "raise", value |-> "AssertionError",
              by |-> "convert_to_prometheus"]

\* a driver calls convert_to_prometheus with the tables of its retrieval
Convert ==
    /\ mpc = "ready"
    /\ mpc' = "done"
    /\ current_balance_metrics' =
           convert_to_prometheus(table_list, InstitutionLabel)
    /\ UNCHANGED <<table_list, otpVars, retryVars, captureVars, loginVars,
                   batchVars, cliVars>>

MetricInit ==
    /\ OtpIdle
    /\ RetryIdle
    /\ CaptureIdle
    /\ LoginIdle
    /\ BatchIdle
    /\ CliIdle
    /\ table_list \in SeqsUpTo(DataFrames, MaxTables)
    /\ mpc = "ready"
    /\ current_balance_metrics = Unset

MetricNext == Convert

MetricSpec == MetricInit /\ [][MetricNext]_vars

(***************************************************************************)
(* The exporter's scrape command (get_bank_metrics) and enable command.    *)
(* Each command is a process of its own; the jail file, the tests file and *)
(* the directory of the screenshots last from one command to the next. A   *)
(* retrieval (get_accounts_info) returns its metrics or raises.            *)
(***************************************************************************)
\* the scrape commands of one history
MaxRuns == 2

\* the scrapers of the config file
BankNames == {"fidelity_netbenefits", "ethereum", "chase", "vanguard"}

\* the orders the config file lists them in
BankConfigs ==
    {<<"fidelity_netbenefits", "ethereum", "chase">>,
     <<"chase", "fidelity_netbenefits", "ethereum">>,
     <<"ethereum", "fidelity_netbenefits">>,
     <<"fidelity_netbenefits", "vanguard">>}

\* how get_accounts_info(bank, ...) ends: the Fidelity NetBenefits run returns
\* its metrics, or a decorated step raises (the error leaves through
\* _screenshot_on_timeout), or search_files_for_int or convert_to_prometheus
\* raises; the Ethereum driver returns or its HTTP provider raises; Chase
\* ends with exit(1) or with the TypeError of "for t in tables"; the Vanguard
\* run returns or its decorated seek_accounts_data times out;
\* collect_metrics then pushes to the gateway
RetrievalOutcomes(bank) ==
    CASE bank = "fidelity_netbenefits" ->
             {Returns("metrics"),
              Raises("PlaywrightTimeoutError", "seek_accounts_data"),
              Raises("AssertionError", "wait_for_redirect"),
              Raises("OSError", "makedirs"),
              Raises("PlaywrightError", "screenshot"),
              Raises("TimeoutError", "search_files_for_int"),
              Raises("AssertionError", "convert_to_prometheus"),
              Raises("URLError", "push_to_gateway")}
      [] bank = "ethereum" ->
             {Returns("metrics"), Raises("HTTPError", "web3"),
              Raises("Web3RPCError", "web3")}
      [] bank = "chase" ->
             {Raises("SystemExit", "exit(1)"),
              Raises("TypeError", "for t in tables")}
      [] bank = "vanguard" ->
             {Returns("metrics"),
              Raises("PlaywrightTimeoutError", "seek_accounts_data")}

\* os.listdir(f"{ROOT_DIR}/errors") after the retrieval: a decorated step's
\* handled error has left its screenshot there; a failed screenshot has at
\* least made the directory
ErrorsAfter(e) ==
    IF e.by \in {"seek_accounts_data", "wait_for_redirect"} THEN "files"
    ELSE IF e.by = "screenshot" /\ bankErrors = "missing" THEN "empty"
    ELSE bankErrors

\* except (PlaywrightTimeoutError, AssertionError) of get_bank_metrics
JailedOn(type) == type \in {"PlaywrightTimeoutError", "AssertionError"}

\* except (requests.exceptions.HTTPError, web3_exceptions.Web3RPCError)
RequestsError(type) == type \in {"HTTPError", "Web3RPCError"}

\* list(line.rstrip() for line in file): the lines of the text, a line being
\* the names written between two "\n"
RECURSIVE SplitLines(_, _, _)
SplitLines(text, line, lines) ==
    IF text = <<>> THEN (IF line = <<>> THEN lines ELSE Append(lines, line))
    ELSE IF Head(text) = "\n"
    THEN SplitLines(Tail(text), <<>>, Append(lines, line))
    ELSE SplitLines(Tail(text), Append(line, Head(text)), lines)

Lines(text) == SplitLines(text, <<>>, <<>>)

\* "\n".join(jail)
RECURSIVE Join(_)
Join(lines) ==
    IF lines = <<>> THEN <<>>
    ELSE IF Len(lines) = 1 THEN lines[1]
    ELSE lines[1] \o <<"\n">> \o Join(Tail(lines))

\* jail.remove(scraper.lower()): the first such line goes; ValueError, which
\* enable catches, when there is none
RECURSIVE Remove(_, _)
Remove(lines, line) ==
    IF lines = <<>> THEN <<>>
    ELSE IF Head(lines) = line THEN Tail(lines)
    ELSE <<Head(lines)>> \o Remove(Tail(lines), line)

\* for scraper in args.scrapers: jail.remove(scraper.lower())
RECURSIVE RemoveAll(_, _)
RemoveAll(lines, scrapers) ==
    IF scrapers = <<>> THEN lines
    ELSE RemoveAll(Remove(lines, <<Head(scrapers)>>), Tail(scrapers))

\* bank_name in jail
InJail(bank_name, lines) == \E i \in DOMAIN lines : lines[i] = <<bank_name>>

\* the process of the scrape command ends with the error e
Exits(e) ==
    /\ bpc' = "idle"
    /\ bexit' = e
    /\ UNCHANGED bi

\* a variant: the jail file is opened for reading
StartRunReading ==
    /\ bpc = "idle"
    /\ runs < MaxRuns
    /\ runs' = runs + 1
    /\ jail' = Lines(jailFile)
    /\ bi' = 1
    /\ bpc' = "loop"
    /\ attempts' = <<>>
    /\ fetched' = {}
    /\ bexit' = Unset
    /\ UNCHANGED <<jailFile, banks, tests_dict, bankErrors, otpVars, retryVars,
                   captureVars, loginVars, metricVars, cliVars>>

\* get_bank_metrics up to its loop: with open(JAIL_FILE, "w+") as file:
\* jail = list(line.rstrip() for line in file). The mode "w+" truncates the
\* file when it opens it, so the lines read are those of the empty file.
StartRun ==
    /\ bpc = "idle"
    /\ runs < MaxRuns
    /\ runs' = runs + 1
    /\ jailFile' = <<>>
    /\ jail' = Lines(jailFile')
    /\ bi' = 1
    /\ bpc' = "loop"
    /\ attempts' = <<>>
    /\ fetched' = {}
    /\ bexit' = Unset
    /\ UNCHANGED <<banks, tests_dict, bankErrors, otpVars, retryVars,
                   captureVars, loginVars, metricVars, cliVars>>

\* one round of "for bank in banks["banks"]" (banks_arg is "all"): a jailed
\* bank is passed over; otherwise get_credentials, collect_metrics and
\* update_test_status(..., True), or one of the two except clauses, or the
\* error leaves get_bank_metrics and ends the process
LoopBank(e) ==
    LET bank_name == banks[bi]
        errors == ErrorsAfter(e)
    IN  /\ bpc = "loop"
        /\ bi <= Len(banks)
        /\ e \in RetrievalOutcomes(bank_name)
        /\ IF InJail(bank_name, jail)
           THEN /\ bi' = bi + 1
                /\ UNCHANGED <<jailFile, tests_dict, bankErrors, bpc, attempts,
                               fetched, bexit>>
           ELSE /\ fetched' = fetched \cup {bank_name}
                /\ attempts' = Append(attempts,
                                      [bank |-> bank_name, outcome |-> e])
                /\ bankErrors' = errors
                /\ IF e.kind = "return"
                   THEN /\ tests_dict' =
                               [tests_dict EXCEPT ![bank_name] = "passed"]
                        /\ bi' = bi + 1
                        /\ UNCHANGED <<jailFile, bpc, bexit>>
                   ELSE IF JailedOn(e.value)
                   THEN /\ jailFile' = jailFile \o <<bank_name, "\n">>
                        /\ tests_dict' =
                               [tests_dict EXCEPT ![bank_name] = "failed"]
                        /\ IF errors = "missing"
                           THEN Exits(Raises("FileNotFoundError", "os.listdir"))
                           ELSE IF errors = "empty"
                           THEN Exits(Raises("IndexError", "sorted(...)[0]"))
                           ELSE /\ bi' = bi + 1
                                /\ UNCHANGED <<bpc, bexit>>
                   ELSE IF RequestsError(e.value)
                   THEN /\ tests_dict' =
                               [tests_dict EXCEPT ![bank_name] = "failed"]
                        /\ bi' = bi + 1
                        /\ UNCHANGED <<jailFile, bpc, bexit>>
                   ELSE /\ Exits(e)
                        /\ UNCHANGED <<jailFile, tests_dict>>
        /\ UNCHANGED <<banks, jail, runs, otpVars, retryVars, captureVars,
                       loginVars, metricVars, cliVars>>

\* the loop is through: get_bank_metrics returns and the process ends
EndRun ==
    /\ bpc = "loop"
    /\ bi > Len(banks)
    /\ bpc' = "idle"
    /\ UNCHANGED <<banks, jailFile, tests_dict, bankErrors, jail, bi, attempts,
                   fetched, bexit, runs, otpVars, retryVars, captureVars,
                   loginVars, metricVars, cliVars>>

\* the enable command: with "all" the file is truncated; otherwise the lines
\* are read, each named scraper is removed once, and the file is rewritten
\* as "\n".join(jail)
Enable(scrapers) ==
    /\ bpc = "idle"
    /\ jailFile' =
           IF \E i \in DOMAIN scrapers : scrapers[i] = "all" THEN <<>>
           ELSE Join(RemoveAll(Lines(jailFile), scrapers))
    /\ UNCHANGED <<banks, tests_dict, bankErrors, bpc, jail, bi, attempts,
                   fetched, bexit, runs, otpVars, retryVars, captureVars,
                   loginVars, metricVars, cliVars>>

\* the --scrapers arguments of an enable command
EnableArgs == {<<"all">>} \cup {<<b>> : b \in BankNames}

BatchInit ==
    /\ OtpIdle
    /\ RetryIdle
    /\ CaptureIdle
    /\ LoginIdle
    /\ MetricIdle
    /\ CliIdle
    /\ banks \in BankConfigs
    /\ jailFile = <<>>
    /\ tests_dict = [b \in BankNames |-> "none"]
    /\ bankErrors \in {"missing", "files"}
    /\ bpc = "idle"
    /\ jail = <<>>
    /\ bi = 0
    /\ attempts = <<>>
    /\ fetched = {}
    /\ bexit = Unset
    /\ runs = 0

BatchNext ==
    \/ StartRun
    \/ \E b \in BankNames : \E e \in RetrievalOutcomes(b) : LoopBank(e)
    \/ EndRun
    \/ \E scrapers \in EnableArgs : Enable(scrapers)

BatchSpec == BatchInit /\ [][BatchNext]_vars

(***************************************************************************)
(* Properties of the poller.                                               *)
(***************************************************************************)
\* the positions at which a maximal digit run of s starts
RunStarts(s) ==
    {p \in 1..Len(s) : IsDigit(s[p]) /\ (p = 1 \/ ~IsDigit(s[p - 1]))}

\* the digit runs of s whose length is within [min, max]
RunsInRange(s, min, max) ==
    {SubSeq(s, p, p + RunLen(s, p) - 1) :
        p \in {q \in RunStarts(s) : RunLen(s, q) >= min /\ RunLen(s, q) <= max}}

\* s contains the tag followed by whitespace or by a colon and whitespace
TagThenSeparator(s, tag) ==
    \E p \in 1..Len(s) :
        /\ TagAt(s, tag, p)
        /\ LET q == p + Len(tag)
           IN  \/ q <= Len(s) /\ s[q] \in {" ", "\t"}
               \/ q < Len(s) /\ s[q] = ":" /\ s[q + 1] \in {" ", "\t"}

\* the newline-stripped content of the file named n, as the claims speak of it
Content(n) == SelectSeq(Chars(files[n].text), LAMBDA c : c # "\n")

\* the file named n is one of flow f: expected extension, f's tag with its
\* separator, a digit run of the length f asks for
IsCodeFile(f, n) ==
    /\ files[n].ext = cfg[f].file_ext
    /\ TagThenSeparator(Content(n), Chars(cfg[f].match_string))
    /\ RunsInRange(Content(n), cfg[f].min_length, cfg[f].max_length) # {}

\* flow f found the directory populated: neither wait slept
FoundPopulated(f) == i1[f] = 0 /\ i2[f] = 0

\* the seconds flow f has slept in its current call
Waited(f) == i1[f] + i2[f] + total_delay[f]

\* the place of name n among the names S in the order of the flow's search
Rank(n, S, reverse) ==
    Cardinality({m \in S : IF reverse THEN m >= n ELSE m <= n})

\* C1: when the directory exists and holds one file, with the expected
\* extension, whose stripped content has the flow's tag with its separator and
\* a digit run of a length within [min_length, max_length], the call returns
\* exactly such a digit run of that file.
C1_ReturnsTheRun ==
    \A f \in flows : \A n \in DOMAIN files :
        (/\ pc[f] = "done"
         /\ FoundPopulated(f)
         /\ DOMAIN files = {n}
         /\ IsCodeFile(f, n))
        => /\ result[f].kind = "return"
           /\ result[f].from = n
           /\ result[f].code \in
                  RunsInRange(Content(n), cfg[f].min_length, cfg[f].max_length)

\* C2: a call never returns a code from a file none of whose digit runs has a
\* length within [min_length, max_length] (no truncated part of a longer run),
\* and it ends with a code or a TimeoutError, never with another error.
C2_OutOfRangeNeverMatched ==
    \A f \in flows :
        pc[f] = "done" =>
            /\ result[f].kind \in {"return", "TimeoutError"}
            /\ result[f].kind = "return" =>
                   result[f].code \in
                       RunsInRange(Content(result[f].from),
                                   cfg[f].min_length, cfg[f].max_length)

\* the file named n carries flow f's tag in a file of the expected extension
IsTagFile(f, n) ==
    /\ files[n].ext = cfg[f].file_ext
    /\ TagThenSeparator(Content(n), Chars(cfg[f].match_string))

\* the directory holds one file for flow f, a code file among the first two
\* entries of f's search order
OneMatchingFile(f) ==
    \E n \in DOMAIN files :
        /\ IsCodeFile(f, n)
        /\ Rank(n, DOMAIN files, cfg[f].reverse) <= 2
        /\ \A m \in DOMAIN files \ {n} : ~IsTagFile(f, m)

\* flow f wakes from sleep(delay) and scans the directory in this step
Scans(f) == pc[f] = "poll_sleep" /\ pc'[f] # "poll_sleep"

C4_OnlyFirstTwo ==
    [][\A f \in flows :
          (Scans(f) /\ result'[f].from # 0)
          => Rank(result'[f].from, DOMAIN files, cfg[f].reverse) <= 2]_vars

\* the only code file sorts third and the call ended without a code
C4_Witness ==
    \E f \in flows : \E n \in DOMAIN files :
        /\ pc[f] = "done"
        /\ round[f] = "first"
        /\ ~changed[f]
        /\ IsCodeFile(f, n)
        /\ Rank(n, DOMAIN files, cfg[f].reverse) = 3
        /\ \A m \in DOMAIN files \ {n} : ~IsTagFile(f, m)
        /\ result[f] = CodeNotFound

\* C6: no step of a call changes the directory, and a second call against a
\* directory unchanged since the first call began returns what the first
\* call returned.
C6_ReadOnly ==
    /\ [][pc' # pc => (files' = files /\ dirExists' = dirExists)]_vars
    /\ [](\A f \in flows :
            (round[f] = "second" /\ pc[f] = "done" /\ ~changed[f])
            => result[f] = prev[f])

C6_Witness ==
    \E f \in flows :
        /\ round[f] = "second"
        /\ pc[f] = "done"
        /\ ~changed[f]
        /\ result[f].kind = "return"
        /\ result[f] = prev[f]

\* i sleeps of one second are what it takes to poll timeout milliseconds
PolledOut(i, timeout) ==
    /\ i * 1000 >= timeout
    /\ i = 1 \/ (i - 1) * 1000 < timeout

\* C7: the phases run in order (the wait for files only once the directory
\* exists, the scans and every read only once it exists and is non-empty); a
\* call whose directory never exists ends with PathNotFound, one whose
\* directory exists but stays empty with NoFilesFound, each once timeout has
\* been polled, and both differ from CodeNotFound.
C7_PhasesInOrder ==
    /\ PathNotFound # CodeNotFound
    /\ NoFilesFound # CodeNotFound
    /\ \A f \in flows :
        /\ pc[f] \in {"wait_files", "wait_files_sleep"} => dirExists
        /\ pc[f] \in {"poll", "poll_sleep"} => dirExists /\ DOMAIN files # {}
        /\ result[f].from # 0 => dirExists /\ DOMAIN files # {}
        /\ (pc[f] = "done" /\ ~dirExists) => result[f] = PathNotFound
        /\ result[f] = PathNotFound =>
               /\ PolledOut(i1[f], cfg[f].timeout)
               /\ i2[f] = 0 /\ total_delay[f] = 0
        /\ (pc[f] = "done" /\ DOMAIN files = {}) =>
               result[f] \in {PathNotFound, NoFilesFound}
        /\ (pc[f] = "done" /\ DOMAIN files = {}
                /\ ~TimedOut(i1[f], cfg[f].timeout)) =>
               result[f] = NoFilesFound
        /\ result[f] = NoFilesFound =>
               /\ dirExists
               /\ PolledOut(i2[f], cfg[f].timeout)
               /\ total_delay[f] = 0

\* the directory came to exist after a sleep and stayed empty
C7_Witness ==
    \E f \in flows :
        /\ pc[f] = "done"
        /\ DOMAIN files = {}
        /\ i1[f] > 0
        /\ result[f] = NoFilesFound

(***************************************************************************)
(* Properties of several flows polling one directory.                      *)
(***************************************************************************)
\* C5: a code a flow returns comes from a file whose stripped content holds
\* that flow's own tag followed by whitespace or by a colon and whitespace.
C5_OwnTagOnly ==
    \A f \in flows :
        /\ result[f].kind = "return" => IsTagFile(f, result[f].from)
        /\ prev[f].kind = "return" => IsTagFile(f, prev[f].from)

\* both flows returned, each from its own file, with all files written
C5_Witness ==
    /\ flows = Flows
    /\ DOMAIN files = FileNames
    /\ \A f \in flows : result[f].kind = "return"
    /\ result["f1"].from # result["f2"].from

(***************************************************************************)
(* Properties of the retry decorator.                                      *)
(***************************************************************************)
\* the call ended and handed its caller a value or an error
Ended(kind) == rpc = "done" /\ outcome.kind = kind

\* the error e is of a type in the decorator's error set
InErrorSet(e) == e.value \in Whitelist

\* a call is under way or has ended
Called == rpc \in {"loop", "done"}

\* C8: with retries >= 1, a call in which func failed k times with caught
\* errors and then returned hands back the value of the last invocation after
\* exactly k + 1 invocations and k sleeps, with k < retries.
C8_ReturnsAfterFailures ==
    (Ended("return") /\ retries >= 1) =>
        /\ Len(raised) < retries
        /\ \A k \in 1..Len(raised) : InErrorSet(raised[k])
        /\ Len(passed) = Len(raised) + 1
        /\ sleeps = Len(raised)
        /\ outcome.value \in ReturnValues
        /\ outcome.attempt = Len(passed)

\* retries = 3, two failures and then a value: three invocations, two sleeps
C8_Witness ==
    /\ Ended("return")
    /\ retries = 3
    /\ Len(raised) = 2
    /\ Len(passed) = 3
    /\ sleeps = 2

\* C9: with retries >= 1, a call never makes more than retries invocations
\* or retries - 1 sleeps; once retries invocations have failed, all with an
\* error of the error set, the call has ended raising the last of them, after
\* exactly retries invocations and retries - 1 sleeps: no sleep follows the
\* last failed invocation.
C9_RaisesAfterAllAttempts ==
    (Called /\ retries >= 1) =>
        /\ Len(passed) <= retries
        /\ sleeps <= retries - 1
        /\ (Len(raised) = retries
                /\ \A k \in 1..Len(raised) : InErrorSet(raised[k])) =>
               /\ Ended("raise")
               /\ outcome = raised[retries]
               /\ Len(passed) = retries
               /\ sleeps = retries - 1
        /\ (Ended("raise") /\ InErrorSet(outcome)) =>
               /\ Len(raised) = retries
               /\ sleeps = Len(passed) - 1

C9_Witness ==
    /\ Ended("raise")
    /\ InErrorSet(outcome)
    /\ retries = 3
    /\ Len(passed) = 3
    /\ sleeps = 2

\* C10: once func has raised an error outside the decorator's error set, the
\* call has ended raising that very error, with no invocation and no sleep
\* after it: raised by the first invocation, it leaves exactly one invocation
\* and no sleep, whatever retries >= 1 is.
C10_OtherErrorPropagates ==
    (Called /\ \E k \in 1..Len(raised) : ~InErrorSet(raised[k])) =>
        /\ Ended("raise")
        /\ ~InErrorSet(outcome)
        /\ outcome = raised[Len(raised)]
        /\ outcome.attempt = Len(passed)
        /\ Len(raised) = Len(passed)
        /\ sleeps = Len(passed) - 1
        /\ \A k \in 1..(Len(raised) - 1) : InErrorSet(raised[k])
        /\ outcome.attempt = 1 => (Len(passed) = 1 /\ sleeps = 0)

\* retries = 3, the first invocation raises KeyError: attempts remain unused
C10_Witness ==
    /\ Ended("raise")
    /\ retries = 3
    /\ this_retries = 3
    /\ outcome = Error("KeyError", 1)
    /\ Len(passed) = 1
    /\ sleeps = 0

\* C11: every invocation of a call receives the arguments the caller passed,
\* the same at each attempt, and a call that ends raising hands its caller the
\* error of its last invocation, which is none of the earlier attempts' errors.
C11_SameArgsFinalError ==
    Called =>
        /\ \A k \in 1..Len(passed) : passed[k] = rargs /\ passed[k] = passed[1]
        /\ Ended("raise") =>
               /\ raised # <<>>
               /\ outcome = raised[Len(raised)]
               /\ outcome.attempt = Len(passed)
               /\ \A k \in 1..(Len(raised) - 1) : outcome # raised[k]

\* the second call of a run, with retries = 3: an AssertionError, then two
\* ConnectionErrors, the last of which the caller observes
C11_Witness ==
    /\ Ended("raise")
    /\ calls = 2
    /\ rargs = "url2"
    /\ retries = 3
    /\ passed = <<"url2", "url2", "url2">>
    /\ raised[1].value = "AssertionError"
    /\ outcome = Error("ConnectionError", 3)

(***************************************************************************)
(* Properties of the screenshot_on_timeout decorator.                      *)
(***************************************************************************)
\* the calls of decorated steps that have handed control back to the caller
EndedCalls == {k \in DOMAIN wcalls : wcalls[k].status = "ended"}

\* the error set the wrapper is described with: Timeout, AssertionFailure and
\* MissingElement
ErrorSet ==
    {"PlaywrightTimeoutError", "AssertionError", "NoSuchElementException"}

\* the step of call k ran and raised an error of one of the given types
StepFailed(k, types) ==
    /\ wcalls[k].ran
    /\ wcalls[k].does.kind = "raise"
    /\ wcalls[k].does.value \in types

\* the writes below ERROR_DIR that call k made
WritesOf(k) == {i \in DOMAIN writes : writes[i].call = k}

\* a file of that path has been written
Exists(path) == \E i \in DOMAIN writes : writes[i].path = path

\* save_path with the extension swapped for .html
SnapshotPath(step) == [SavePath(step) EXCEPT !.ext = ".html"]

\* C12: once a call whose step raised Timeout has handed control back, the
\* screenshot exists at save_path, the snapshot exists at the same path with
\* the extension .html, and the caller observes that Timeout.
C12_BothArtifacts ==
    \A k \in EndedCalls :
        StepFailed(k, {"PlaywrightTimeoutError"}) =>
            /\ Exists(SavePath(wcalls[k].step))
            /\ Exists(SnapshotPath(wcalls[k].step))
            /\ wcalls[k].outcome = wcalls[k].does

\* C13: a call whose step raised an error of the error set hands its caller
\* that very error, whatever happens to the directory and the screenshot.
C13_OriginalErrorObserved ==
    \A k \in EndedCalls :
        StepFailed(k, ErrorSet) => wcalls[k].outcome = wcalls[k].does

\* C14: the capture is triggered by a step's Timeout, AssertionFailure or
\* MissingElement, and by no other error: any other error leaves no file and
\* reaches the caller unchanged.
C14_ExactlyTheErrorSet ==
    \A k \in EndedCalls :
        /\ StepFailed(k, ErrorSet) => wcalls[k].handled
        /\ StepFailed(k, StepErrors \ ErrorSet) =>
               /\ ~wcalls[k].handled
               /\ WritesOf(k) = {}
               /\ wcalls[k].outcome = wcalls[k].does

\* C15: a call whose step returns a value hands its caller that value, of the
\* kind the step returns, for coroutine functions and for plain functions,
\* and does not enter the capture: no file written, no directory made.
C15_PassThrough ==
    \A k \in EndedCalls :
        wcalls[k].does.kind = "return" =>
            /\ wcalls[k].outcome = wcalls[k].does
            /\ ~wcalls[k].handled
            /\ WritesOf(k) = {}

\* C16: every call whose step raised an error of the error set requested
\* exactly one screenshot, also when the same step failed in an earlier call.
C16_ExactlyOneCapture ==
    \A k \in EndedCalls :
        StepFailed(k, ErrorSet) =>
            /\ wcalls[k].shots = 1
            /\ Cardinality(WritesOf(k)) <= 1

\* C17: no path below ERROR_DIR is written twice in one process.
C17_WriteOnce ==
    \A i, j \in DOMAIN writes : i # j => writes[i].path # writes[j].path

(***************************************************************************)
(* Properties of the login.                                                *)
(***************************************************************************)
Range(s) == {s[i] : i \in DOMAIN s}

\* the page shows an MFA challenge of the institution
ShowsChallenge(p) ==
    IF institution = "chase"
    THEN p.text \cap {ChaseNotRecognized, ChaseMakeSure} # {}
    ELSE FidelityVerify \in p.text

\* the page tells the user to reset the password
ShowsReset(p) ==
    institution = "chase" /\ p.text \cap {ChaseCantFind, ChaseKeepInMind} # {}

\* the landing-page predicate of the institution holds for the page
LandingPredicate(p) ==
    IF institution = "chase" THEN InChaseDashboard(p.url)
    ELSE FidelityAccounts \in p.text

\* C18: when the page the classification looks at shows no MFA challenge (and
\* no password reset), the retrieval goes from Authenticating straight to
\* Authenticated: it is never in AwaitingChallenge, prompts for nothing,
\* sends no contact option and no code, and never calls search_files_for_int.
C18_NoChallengeDirect ==
    (seen # <<>> /\ ~ShowsChallenge(seen[1]) /\ ~ShowsReset(seen[1])) =>
        /\ "AwaitingChallenge" \notin Range(visited)
        /\ "PasswordResetRequired" \notin Range(visited)
        /\ prompts = 0
        /\ otpCalls = 0
        /\ Range(inputs) \cap {"contact_option", "otp_code"} = {}
        /\ lpc \in {"seek_accounts_data", "extract", "done"} =>
               Len(visited) >= 2
        /\ Len(visited) >= 2 => visited[2] = "Authenticated"

\* credentials submitted, the landing text shown, the tables returned
C18_Witness ==
    /\ institution = "fidelity_netbenefits"
    /\ lpc = "done"
    /\ loutcome = Tables
    /\ inputs = <<"username", "password", "submit">>
    /\ seen = <<Page(FidelityUrl, {FidelityAccounts})>>
    /\ visited = <<"Authenticating", "Authenticated">>

\* C19: once the classification has resolved to PasswordResetRequired the
\* retrieval has ended, with exit(1): it is the last state the retrieval is
\* in, no OTP was asked for or searched, nothing was sent to the session, and
\* neither the wait for the landing page nor the extraction was entered.
C19_ResetEndsAtOnce ==
    /\ "PasswordResetRequired" \in Range(visited) =>
           /\ lpc = "done"
           /\ loutcome = SystemExit
           /\ visited[Len(visited)] = "PasswordResetRequired"
           /\ Range(visited) \cap {"AwaitingChallenge", "Authenticated"} = {}
           /\ prompts = 0
           /\ otpCalls = 0
           /\ inputs = <<>>
    /\ (institution = "chase" /\ seen # <<>> /\ password_needs_reset(seen[1])
            /\ ~is_mfa_redirect(seen[1])
            /\ ~is_mfa_redirect_alternate(seen[1])) =>
           "PasswordResetRequired" \in Range(visited)

\* the Chase session shows the password-reset page when it is classified
C19_Witness ==
    /\ institution = "chase"
    /\ seen = <<Page(ChaseAuthUrl, {ChaseCantFind, ChaseKeepInMind})>>
    /\ visited = <<"Authenticating", "PasswordResetRequired">>
    /\ lpc = "done"
    /\ loutcome = SystemExit

\* C20: whenever the landing-page predicate holds for a page the
\* classification looks at, the login resolves to Authenticated: neither the
\* challenge handling nor the password-reset handling runs, whatever else
\* holds for that page.
C20_LandingFirst ==
    \A i \in DOMAIN seen :
        LandingPredicate(seen[i]) =>
            /\ Range(visited) \cap {"AwaitingChallenge", "PasswordResetRequired"}
                   = {}
            /\ Len(visited) >= 2 => visited[2] = "Authenticated"

\* C21: after a challenge has been handled the login classifies the session
\* again: a retrieval that was in AwaitingChallenge is in Authenticated only
\* after the classification has looked at the page a further time, so that a
\* second challenge or a password-reset page shown after the first code is
\* handled as well.
C21_ReclassifiesAfterChallenge ==
    ("AwaitingChallenge" \in Range(visited)
         /\ visited[Len(visited)] = "Authenticated") =>
        /\ Len(seen) >= 2
        /\ ~ShowsChallenge(seen[Len(seen)])
        /\ ~ShowsReset(seen[Len(seen)])

\* some predicate of the wait after the credentials holds for the page
SomePredicate(p) ==
    IF institution = "chase"
    THEN \/ InChaseDashboard(p.url)
         \/ is_mfa_redirect(p)
         \/ is_mfa_redirect_alternate(p)
         \/ password_needs_reset(p)
    ELSE fidelity_target_visible(p)

\* the step in which the wait after the credentials ends
WaitEnds ==
    \/ institution = "chase" /\ lpc = "logon" /\ lpc' # "logon"
    \/ /\ institution = "fidelity_netbenefits"
       /\ lpc = "wait_for_redirect"
       /\ lpc' # "wait_for_redirect"

\* C22: when the wait after the credentials ends with no predicate matching
\* the session, the retrieval ends there in Error: the error is one the
\* capture wrapper handles, one artifact is written, the caller gets the
\* error, and no later step of the retrieval (the extraction) runs.
C22_TimeoutEndsInError ==
    [][(WaitEnds /\ ~SomePredicate(page)) =>
           /\ lpc' = "done"
           /\ visited'[Len(visited')] = "Error"
           /\ loutcome'.kind = "raise"
           /\ Handled(loutcome'.value)
           /\ loutcome'.by \in {"wait_for_redirect"}
           /\ Len(writes') = Len(writes) + 1]_vars

(***************************************************************************)
(* Properties of the waits.                                                *)
(***************************************************************************)
\* C23: every wait has a bound: a call of search_files_for_int that has
\* started its polling ends, with a code or an error, whatever happens to
\* the directory, for every timeout and every delay, the delay 0 included.
C23_EveryWaitEnds == (pc["f1"] = "wait_path") ~> (pc["f1"] = "done")

\* the flow is in one of the sleeps of search_files_for_int
Sleeping(f) == pc[f] \in {"wait_path_sleep", "wait_files_sleep", "poll_sleep"}

\* C24: on one event loop every wait is a suspension point: while one
\* retrieval sleeps in its poll for a code, another retrieval that has a
\* step to take can take it.
C24_WaitsYield ==
    \A f \in flows : \A g \in flows \ {f} :
        (Sleeping(f) /\ pc[g] = "idle") => ENABLED Run(g)

(***************************************************************************)
(* Properties of convert_to_prometheus.                                    *)
(***************************************************************************)
\* the tables of the call that have all four columns
FullTables ==
    {k \in 1..Len(table_list) :
        {"account", "account_type", "symbol", "balance"}
            \subseteq table_list[k].columns}

\* the rows of the full tables among the first k tables
RECURSIVE RowsUpTo(_)
RowsUpTo(k) ==
    IF k = 0 THEN 0
    ELSE RowsUpTo(k - 1)
             + (IF k \in FullTables THEN Len(table_list[k].rows) ELSE 0)

\* the call has returned a list
Converted == mpc = "done" /\ current_balance_metrics.kind = "return"

\* C25: for every table with all four columns the result holds one metric
\* per row, with the labels [institution, account, account type, symbol] in
\* that order and the row's balance as value, the metrics in table order and
\* within a table in row order; the one-row table of account "1" gives
\* [(["Bank", "1", "deposit", "USD"], 100.0)].
C25_OneMetricPerRow ==
    /\ (mpc = "done" /\ RowsUpTo(Len(table_list)) > 0) => Converted
    /\ Converted =>
           \A k \in FullTables : \A j \in 1..Len(table_list[k].rows) :
               LET row == table_list[k].rows[j]
                   at == RowsUpTo(k - 1) + j
               IN  /\ at <= Len(current_balance_metrics.value)
                   /\ current_balance_metrics.value[at] =
                          [labels |-> <<"Bank", row["account"],
                                        row["account_type"], row["symbol"]>>,
                           value |-> row["balance"]]

\* the call with the one table of the one row: account "1", deposit, USD, 100.0
C25_Witness ==
    /\ Converted
    /\ Len(table_list) = 1
    /\ FullTables = {1}
    /\ Len(table_list[1].rows) = 1
    /\ table_list[1].rows[1]["account"] = "1"
    /\ current_balance_metrics.value =
           <<[labels |-> <<"Bank", "1", "deposit", "USD">>, value |-> "100.0"]>>

\* C26: a table that lacks a required column adds no metric and no error when
\* another table gives a metric: the call returns, and the result is as long
\* as the full tables have rows.
C26_LackingTablesSkipped ==
    mpc = "done" =>
        /\ RowsUpTo(Len(table_list)) > 0 => Converted
        /\ Converted =>
               Len(current_balance_metrics.value) = RowsUpTo(Len(table_list))

\* a full table of three rows, then a table without the symbol column: three
\* metrics
C26_Witness ==
    /\ Converted
    /\ Len(table_list) = 2
    /\ FullTables = {1}
    /\ Len(table_list[1].rows) = 3
    /\ "symbol" \notin table_list[2].columns
    /\ Len(table_list[2].rows) > 0
    /\ Len(current_balance_metrics.value) = 3

\* C27: the call never returns an empty list: with no table, with every table
\* lacking a column, or with no row in the full tables, it raises the
\* AssertionError of its assert.
C27_NeverEmpty ==
    mpc = "done" =>
        /\ Converted => Len(current_balance_metrics.value) > 0
        /\ RowsUpTo(Len(table_list)) = 0 =>
               /\ current_balance_metrics.kind = "raise"
               /\ current_balance_metrics.value = "AssertionError"

\* two tables that hold rows, each lacking a column: the assert fails
C27_Witness ==
    /\ mpc = "done"
    /\ Len(table_list) = 2
    /\ FullTables = {}
    /\ Len(table_list[1].rows) > 0
    /\ Len(table_list[2].rows) > 0
    /\ current_balance_metrics.kind = "raise"

\* C28: every metric of the result has four labels and a value that is a
\* number: no metric is emitted for a row whose balance is null.
C28_ValueDefined ==
    Converted =>
        \A i \in 1..Len(current_balance_metrics.value) :
            /\ Len(current_balance_metrics.value[i].labels) = 4
            /\ current_balance_metrics.value[i].value # "nan"

(***************************************************************************)
(* Properties of the exporter's commands.                                  *)
(***************************************************************************)
\* a retrieval ended with one of the failures of an institution: a timeout,
\* an assertion failure, the OTP poll's CodeNotFound, EmptyMetricSet,
\* PasswordResetRequired
InstitutionFailure(e) ==
    /\ e.kind = "raise"
    /\ \/ e.value \in {"PlaywrightTimeoutError", "AssertionError"}
       \/ e.value = "TimeoutError" /\ e.by = "search_files_for_int"
       \/ e.value = "SystemExit"

\* C29: in a run over several institutions the failure of one of them is
\* recorded as its failed status, the process does not end with it, and once
\* the run is over every institution that is not jailed has been attempted.
C29_FailureContained ==
    \A i \in DOMAIN attempts :
        InstitutionFailure(attempts[i].outcome) =>
            /\ tests_dict[attempts[i].bank] = "failed"
            /\ bexit.kind = "none"
            /\ bpc = "idle" =>
                   \A j \in DOMAIN banks :
                       \/ InJail(banks[j], jail)
                       \/ \E k \in DOMAIN attempts : attempts[k].bank = banks[j]

\* the scraper has a line of its own in the jail file
Jailed(b, text) == InJail(b, Lines(text))

\* C30: a jailed scraper stays jailed across runs: no step of a scrape run
\* takes a scraper's line out of the jail file, and a bank whose line is in
\* the file when the loop comes to it is passed over, with no credentials
\* fetched and no retrieval started.
C30_StaysJailed ==
    [][(bpc # "idle" \/ bpc' # "idle") =>
           \A b \in BankNames :
               Jailed(b, jailFile) =>
                   /\ Jailed(b, jailFile')
                   /\ (bpc = "loop" /\ bi <= Len(banks) /\ banks[bi] = b) =>
                          (attempts' = attempts /\ fetched' = fetched)]_vars

(***************************************************************************)
(* The Selenium drivers' calls of search_files_for_int.  Python binds the  *)
(* positional arguments of a call to the parameters in the order of the    *)
(* signature; an argument is a value with its Python type.                 *)
(***************************************************************************)
\* a str, an int and a bool argument
PyStr(s) == [type |-> "str", s |-> s, n |-> 0]

PyInt(n) == [type |-> "int", s |-> "", n |-> n]

PyBool(b) == [type |-> "bool", s |-> IF b THEN "True" ELSE "False", n |-> 0]

\* def search_files_for_int(filepath, match_string, min_length, max_length,
\*                          timeout, file_ext=".txt", reverse=False, delay=30)
Signature ==
    <<"filepath", "match_string", "min_length", "max_length", "timeout",
      "file_ext", "reverse", "delay">>

\* the parameters' defaults
Defaults ==
    [file_ext |-> PyStr(".txt"), reverse |-> PyBool(FALSE), delay |-> PyInt(30)]

\* INSTITUTION and the literal tags of the three drivers' calls
TagServicingDigital == "Servicing Digital"

TagUniversity == "University of Hawaii Federal Credit Union"

\* TIMEOUT: int = 60 of chase, roundpoint and uhfcu
TIMEOUT == 60

DriverSites == {"chase", "roundpoint", "uhfcu"}

\* the tag a driver passes
SiteTag(site) ==
    CASE site = "chase" -> TagChase
      [] site = "roundpoint" -> TagServicingDigital
      [] site = "uhfcu" -> TagUniversity

\* search_files_for_int(mfa_auth["otp_code_location"], <tag>, ".txt", 6, 10,
\*                      TIMEOUT, True): seven positional arguments
SiteArgs(site) ==
    <<PyStr("otp_code_location"), PyStr(SiteTag(site)), PyStr(".txt"), PyInt(6),
      PyInt(10), PyInt(TIMEOUT), PyBool(TRUE)>>

\* the position of a parameter in the signature
Position(name) == CHOOSE k \in 1..Len(Signature) : Signature[k] = name

\* positional binding: the k-th argument is the k-th parameter's value, a
\* parameter without argument takes its default
Bind(positional) ==
    [name \in {Signature[k] : k \in 1..Len(Signature)} |->
        IF Position(name) <= Len(positional) THEN positional[Position(name)]
        ELSE Defaults[name]]

\* str.endswith(file_ext) with a file_ext that is not a str
TypeError(from) ==
    Outcome("TypeError", "endswith first arg must be str", NoCode, from)

\* the parameters the waits use, and the binding itself
BoundConfig(site) ==
    LET b == Bind(SiteArgs(site))
    IN  [match_string |-> b.match_string.s, timeout |-> b.timeout.n,
         reverse |-> (b.reverse.s = "True"), delay |-> b.delay.n,
         bound |-> b]

\* the for loop of the third phase under a binding: endswith raises for a
\* file_ext that is not a str; a min_length or max_length that is not an int
\* is formatted into the pattern, which then has no quantifier and finds
\* nothing in a text of digits
ScanBound(cands, fs, c) ==
    LET b == c.bound
    IN  IF cands = <<>> THEN Pending
        ELSE IF b.file_ext.type # "str" THEN TypeError(Head(cands))
        ELSE IF b.min_length.type = "int" /\ b.max_length.type = "int"
        THEN ScanFiles(cands, fs,
                       [match_string |-> c.match_string,
                        min_length |-> b.min_length.n,
                        max_length |-> b.max_length.n,
                        file_ext |-> b.file_ext.s])
        ELSE LET hits == SelectSeq(cands, LAMBDA filename :
                            /\ fs[filename].ext = b.file_ext.s
                            /\ TagPatternMatches(
                                   StripNewlines(Chars(fs[filename].text)),
                                   Chars(c.match_string)))
             IN  IF hits = <<>> THEN Pending ELSE IndexError(hits[1])

\* sleep(delay) is over; total_delay += delay; the for loop of a driver's call
DriverPollWake(f) ==
    LET r == ScanBound(Candidates(files, cfg[f].reverse), files, cfg[f])
    IN  /\ pc[f] = "poll_sleep"
        /\ total_delay' = [total_delay EXCEPT ![f] = @ + cfg[f].delay]
        /\ IF r = Pending
           THEN /\ pc' = [pc EXCEPT ![f] = "poll"]
                /\ result' = result
           ELSE /\ pc' = [pc EXCEPT ![f] = "done"]
                /\ result' = [result EXCEPT ![f] = r]
        /\ UNCHANGED <<dirExists, files, relay, flows, cfg, i1, i2, round, prev,
                       changed, retryVars, captureVars, loginVars,
                       metricVars, batchVars, cliVars>>

\* one driver with an MFA automation config reaches its OTP acquisition
DriverInit ==
    /\ \E site \in DriverSites :
          OtpInit({site}, "solo", {[f \in {site} |-> BoundConfig(site)]})
    /\ RetryIdle
    /\ CaptureIdle
    /\ LoginIdle
    /\ ExporterIdle
    /\ CliIdle

DriverNext ==
    \/ MakeDir
    \/ \E n \in FileNames, file \in Relayed : WriteFile(n, file)
    \/ \E f \in flows : Call(f)
    \/ \E f \in flows : WaitPathCheck(f)
    \/ \E f \in flows : WaitPathWake(f)
    \/ \E f \in flows : WaitFilesCheck(f)
    \/ \E f \in flows : WaitFilesWake(f)
    \/ \E f \in flows : PollCheck(f)
    \/ \E f \in flows : DriverPollWake(f)

DriverSpec == DriverInit /\ [][DriverNext]_vars

(***************************************************************************)
(* Properties of the drivers' OTP acquisition.                             *)
(***************************************************************************)
\* C31: with an MFA automation config, the OTP acquisition of Chase,
\* RoundPoint and UHFCU looks for a '.txt' file that carries the
\* institution's tag and a code of 6 to 10 digits, examines the entries in
\* reverse name order under the driver's timeout, and ends with that code or
\* with one of the poller's three timeout errors.
C31_DriverOtpCall ==
    \A f \in flows :
        /\ cfg[f].bound.file_ext = PyStr(".txt")
        /\ cfg[f].bound.min_length = PyInt(6)
        /\ cfg[f].bound.max_length = PyInt(10)
        /\ cfg[f].bound.timeout = PyInt(TIMEOUT)
        /\ cfg[f].bound.reverse = PyBool(TRUE)
        /\ pc[f] = "done" =>
              \/ result[f] \in {PathNotFound, NoFilesFound, CodeNotFound}
              \/ /\ result[f].kind = "return"
                 /\ Len(result[f].code) \in 6..10

(***************************************************************************)
(* The command line interface and the library's logger.  A log record and  *)
(* a printed or written text is modelled by the values it mentions.        *)
(***************************************************************************)
\* logging's levels
DEBUG == 10

INFO == 20

ERROR == 40

\* log_levels: Dict[int, str] = {0: "WARN", 1: "INFO", 2: "DEBUG"}
log_levels == (0 :> WARN) @@ (1 :> INFO) @@ (2 :> DEBUG)

\* --verbose is counted (action="count"), so -vvv gives 3
Verbosities == 0..3

\* three of the CLI's subcommands
Commands == {"chase", "fidelity_netbenefits", "kraken"}

\* the secrets among the values: an account password, an API secret key
Secrets == {"password", "api_sec"}

\* str(args): the Namespace with the positional arguments of the subcommand
ArgsText(command) ==
    IF command = "kraken" THEN {"api_key", "api_sec"}
    ELSE {"username", "password"}

\* a logging call: its level and the values its message formats
Statement(level, mentions) == [level |-> level, mentions |-> mentions]

\* the logging calls of the retrieval a subcommand runs, in order: logon of
\* chase and of fidelity_netbenefits, kraken_request and parse_accounts_info
Statements(command) ==
    CASE command = "chase" ->
           <<Statement(INFO, {}), Statement(DEBUG, {"username"}),
             Statement(INFO, {}), Statement(INFO, {}),
             Statement(DEBUG, {"username"}), Statement(INFO, {}),
             Statement(INFO, {})>>
      [] command = "fidelity_netbenefits" ->
           <<Statement(INFO, {"homepage"}), Statement(INFO, {}),
             Statement(INFO, {}), Statement(DEBUG, {"username"}),
             Statement(INFO, {}), Statement(INFO, {}), Statement(INFO, {}),
             Statement(INFO, {})>>
      [] command = "kraken" ->
           <<Statement(DEBUG, {"api_key", "signature"}),
             Statement(DEBUG, {"url"}), Statement(DEBUG, {"response"}),
             Statement(DEBUG, {"response"})>>

\* a variant: the logger passes every record to its handler
isEnabledAlways(level) == TRUE

\* Logger.isEnabledFor(level), after log.setLevel(log_level)
isEnabledFor(level) == level >= log_level'

\* log.<level>(message): the handler writes the record to sys.stdout
Logged(out, st) ==
    IF isEnabledFor(st.level)
    THEN Append(out, [by |-> "log", level |-> st.level,
                      mentions |-> st.mentions])
    ELSE out

\* print(t.to_string(index=False)): kraken's table has the API key as account
TablesText(command) ==
    IF command = "kraken" THEN {"api_key", "balance"}
    ELSE {"account", "balance"}

\* the handlers of fidelity_netbenefits are coroutine functions, whose
\* timeouts screenshot_on_timeout catches
Screenshots(command) == command = "fidelity_netbenefits"

\* driver.screenshot(path=save_path): the rendered page, on which a password
\* input shows bullets
Screenshot == [path |-> "save_path", mentions |-> {"username", "bullets"}]

\* main: parse_args, the log level, log.info("Running with args=%s ...")
Main(command, verbose) ==
    /\ cpc.at = "off"
    /\ args' = [command |-> command, verbose |-> verbose]
    /\ IF verbose \in DOMAIN log_levels
       THEN /\ log_level' = log_levels[verbose]
            /\ stdout' = Logged(stdout, Statement(INFO, ArgsText(command)))
            /\ cpc' = [at |-> "running", k |-> 1]
       ELSE /\ cpc' = [at |-> "KeyError", k |-> 0]
            /\ UNCHANGED <<log_level, stdout>>
    /\ UNCHANGED <<disk, otpVars, retryVars, captureVars, loginVars,
                   metricVars, batchVars>>

\* the next logging call of the retrieval
LogStatement ==
    /\ cpc.at = "running"
    /\ cpc.k <= Len(Statements(args.command))
    /\ log_level' = log_level
    /\ stdout' = Logged(stdout, Statements(args.command)[cpc.k])
    /\ cpc' = [cpc EXCEPT !.k = @ + 1]
    /\ UNCHANGED <<args, disk, otpVars, retryVars, captureVars, loginVars,
                   metricVars, batchVars>>

\* the retrieval returns its tables and the subcommand's wrapper prints them
RetrievalReturns ==
    /\ cpc.at = "running"
    /\ cpc.k > Len(Statements(args.command))
    /\ stdout' = Append(stdout, [by |-> "print", level |-> 0,
                                 mentions |-> TablesText(args.command)])
    /\ cpc' = [cpc EXCEPT !.at = "returned"]
    /\ UNCHANGED <<args, log_level, disk, otpVars, retryVars, captureVars,
                   loginVars, metricVars, batchVars>>

\* the retrieval raises: a handler's timeout is captured first
\* (log.warning(f"Saving screenshot to: {save_path}"), driver.screenshot), then
\* main logs traceback.format_exc() and raises
RetrievalRaises ==
    /\ cpc.at = "running"
    /\ cpc.k <= Len(Statements(args.command))
    /\ log_level' = log_level
    /\ LET captured == IF Screenshots(args.command)
                       THEN Logged(stdout, Statement(WARN, {"save_path"}))
                       ELSE stdout
       IN  stdout' = Logged(captured, Statement(ERROR, {"traceback"}))
    /\ disk' = IF Screenshots(args.command) THEN disk \cup {Screenshot}
               ELSE disk
    /\ cpc' = [cpc EXCEPT !.at = "raised"]
    /\ UNCHANGED <<args, otpVars, retryVars, captureVars, loginVars,
                   metricVars, batchVars>>

CliInit ==
    /\ OtpIdle
    /\ RetryIdle
    /\ CaptureIdle
    /\ LoginIdle
    /\ ExporterIdle
    /\ CliIdle

CliNext ==
    \/ \E command \in Commands, verbose \in Verbosities : Main(command, verbose)
    \/ LogStatement
    \/ RetrievalReturns
    \/ RetrievalRaises

CliSpec == CliInit /\ [][CliNext]_vars

C33_AtLeastOneInvocation ==
    rpc = "done" =>
        /\ Len(passed) >= 1
        /\ outcome.kind = "return" =>
              /\ outcome.value \in ReturnValues
              /\ outcome.attempt = Len(passed)

(***************************************************************************)
(* Properties of the moment a wait gives up.                               *)
(***************************************************************************)
\* C34: the first phase ends with PathNotFound only when the directory is
\* absent at that moment, also when the directory was created during the
\* last one-second sleep; likewise the second phase ends with NoFilesFound
\* only when the directory holds no file at that moment.
C34_FailsOnlyIfAbsent ==
    [][\A f \in flows :
          /\ (result[f] # PathNotFound /\ result'[f] = PathNotFound)
                => ~dirExists'
          /\ (result[f] # NoFilesFound /\ result'[f] = NoFilesFound)
                => ListDir(files') = {}]_vars

(***************************************************************************)
(* Properties of the entries a scan examines.                              *)
(***************************************************************************)
\* the entries that end with the flow's extension
WithExtension(f) == {n \in DOMAIN files : files[n].ext = cfg[f].file_ext}

\* C35: entries lacking the extension never hide a code: a scan returns the
\* code of a file that carries the tag and a code whenever that file is one
\* of the first two entries with the extension, in the flow's search order,
\* and no other file carries the tag.
C35_ExtensionFirst ==
    [][\A f \in flows :
          \A n \in WithExtension(f) :
              (/\ Scans(f)
               /\ IsCodeFile(f, n)
               /\ Rank(n, WithExtension(f), cfg[f].reverse) <= 2
               /\ \A m \in DOMAIN files \ {n} : ~IsTagFile(f, m))
              => /\ result'[f].kind = "return"
                 /\ result'[f].from = n]_vars

(***************************************************************************)
(* Properties of the order in which a scan reads its candidates.           *)
(***************************************************************************)
\* the files the for loop opens, in order: a candidate with the extension is
\* opened and read, and the loop is left at the first one that carries the tag
RECURSIVE Opened(_, _, _)
Opened(cands, fs, c) ==
    IF cands = <<>> THEN <<>>
    ELSE LET filename == Head(cands)
             text_content == StripNewlines(Chars(fs[filename].text))
         IN  IF fs[filename].ext # c.file_ext
             THEN Opened(Tail(cands), fs, c)
             ELSE IF TagPatternMatches(text_content, Chars(c.match_string))
             THEN <<filename>>
             ELSE <<filename>> \o Opened(Tail(cands), fs, c)

\* the entry at the given place of the flow's search order
EntryAt(f, place) ==
    CHOOSE n \in DOMAIN files : Rank(n, DOMAIN files, cfg[f].reverse) = place

\* both entries a scan examines carry the flow's tag
BothCarryTag(f) ==
    /\ Cardinality(DOMAIN files) >= 2
    /\ IsTagFile(f, EntryAt(f, 1))
    /\ IsTagFile(f, EntryAt(f, 2))

\* C36: when both candidates a scan examines carry the tag, the scan ends at
\* the candidate that is first in the configured order: a code returned is
\* the first one found in that file, and the second candidate is not opened
\* in that scan.
C36_FirstCandidateWins ==
    [][\A f \in flows :
          (Scans(f) /\ BothCarryTag(f))
          => /\ pc'[f] = "done"
             /\ result'[f].from = EntryAt(f, 1)
             /\ result'[f].kind = "return"
                   => result'[f].code =
                          FindAll(Content(EntryAt(f, 1)), cfg[f].min_length,
                                  cfg[f].max_length)[1]
             /\ Opened(Candidates(files, cfg[f].reverse), files, cfg[f])
                    = <<EntryAt(f, 1)>>]_vars

\* two files with different texts carry the tag and a code, the flow searches
\* in reverse order and returned from the one that sorts last
C36_Witness ==
    \E f \in flows :
        /\ pc[f] = "done"
        /\ ~changed[f]
        /\ cfg[f].reverse
        /\ Cardinality(DOMAIN files) = 2
        /\ IsCodeFile(f, EntryAt(f, 1))
        /\ IsCodeFile(f, EntryAt(f, 2))
        /\ files[EntryAt(f, 1)].text # files[EntryAt(f, 2)].text
        /\ result[f].kind = "return"
        /\ result[f].from = EntryAt(f, 1)

(***************************************************************************)
(* Properties of the session's release.                                    *)
(***************************************************************************)
\* C37: a retrieval that has ended, by returning its tables, by a timeout or
\* an assertion error of any step, or by the exit of the password-reset
\* branch, leaves no session open: the browser or driver it created is
\* closed.
C37_SessionReleased == lpc = "done" => session = "closed"

(***************************************************************************)
(* The jail file under enable commands given at any time.  The enable      *)
(* command is a process of its own and takes no lock, so it may also run   *)
(* while a scrape command is in its loop.                                  *)
(***************************************************************************)
\* the enable command while a scrape run is between two banks
EnableDuringRun(scrapers) ==
    /\ bpc = "loop"
    /\ jailFile' =
           IF \E i \in DOMAIN scrapers : scrapers[i] = "all" THEN <<>>
           ELSE Join(RemoveAll(Lines(jailFile), scrapers))
    /\ UNCHANGED <<banks, tests_dict, bankErrors, bpc, jail, bi, attempts,
                   fetched, bexit, runs, otpVars, retryVars, captureVars,
                   loginVars, metricVars, cliVars>>

JailNext ==
    \/ StartRun
    \/ \E b \in BankNames : \E e \in RetrievalOutcomes(b) : LoopBank(e)
    \/ EndRun
    \/ \E scrapers \in EnableArgs : Enable(scrapers)
    \/ \E scrapers \in EnableArgs : EnableDuringRun(scrapers)

JailSpec == BatchInit /\ [][JailNext]_vars

(***************************************************************************)
(* Properties of the jail file.                                            *)
(***************************************************************************)
\* every line of the text is one scraper name
OneNamePerLine(text) ==
    \A i \in DOMAIN Lines(text) : \E b \in BankNames : Lines(text)[i] = <<b>>

\* the names read back from the text
NamesIn(text) == {b \in BankNames : Jailed(b, text)}

\* a step of an enable command: no scrape command moves
EnableStep ==
    /\ runs' = runs
    /\ bi' = bi
    /\ bpc' = bpc
    /\ bexit' = bexit
    /\ attempts' = attempts

\* C38: the jail file always holds one scraper name per line, and the names
\* read back from it are the names jailed so far less the names enabled
\* since: a step of a scrape command takes no name out of the file and adds
\* at most the bank it is at, a step of an enable command adds none, and no
\* step merges two names into one line.
C38_OneNamePerLine ==
    [][/\ OneNamePerLine(jailFile')
       /\ IF EnableStep
          THEN NamesIn(jailFile') \subseteq NamesIn(jailFile)
          ELSE /\ NamesIn(jailFile) \subseteq NamesIn(jailFile')
               /\ \A b \in NamesIn(jailFile') \ NamesIn(jailFile) :
                      bpc = "loop" /\ bi <= Len(banks) /\ banks[bi] = b]_vars

(***************************************************************************)
(* Properties of retry across calls.                                       *)
(***************************************************************************)
\* C39: the retry budget is per call: no call changes the configured number
\* of attempts, every new call starts with all of them whatever the calls
\* before it did, and a later call whose invocations all fail with errors of
\* the error set makes as many invocations, with a sleep of the configured
\* delay between them, as the configuration says.
C39_BudgetPerCall ==
    /\ [][/\ retries' = retries
          /\ calls' = calls + 1 =>
                /\ this_retries' = retries
                /\ passed' = <<>>
                /\ sleeps' = 0]_vars
    /\ []((/\ calls >= 2
           /\ retries >= 1
           /\ rpc = "done"
           /\ outcome.kind = "raise"
           /\ Caught(outcome.value))
          => /\ Len(passed) = retries
             /\ sleeps = retries - 1)

\* the second call of a function configured with three attempts has used all
\* three and ended with the error of the third
C39_Witness ==
    /\ calls = 2
    /\ retries = 3
    /\ rpc = "done"
    /\ outcome.kind = "raise"
    /\ Caught(outcome.value)
    /\ Len(passed) = 3
    /\ sleeps = 2

====
